---- MODULE Spec2Model ----
(***************************************************************************)
(* A model of the minigbm DRI image backend (dri.c) and of the gralloc0    *)
(* HAL module (cros_gralloc/gralloc0/gralloc0.cc).                         *)
(*                                                                         *)
(* Byte quantities (plane offsets, plane sizes, dma-buf sizes) are counted *)
(* in KiB: every value the model draws is a multiple of 1024 bytes, so     *)
(* unsigned 32-bit byte arithmetic is arithmetic modulo U32_KIB.           *)
(* 64-bit words are kept as four 16-bit limbs, most significant first.     *)
(***************************************************************************)
EXTENDS Integers, Sequences, FiniteSets, TLC

VARIABLES
    image,      \* what the DRI driver reports about the __DRIimage behind bo->priv
    gem_size,   \* size of the dma-buf behind each kernel (GEM) handle
    bo,         \* struct bo: priv, handles[], meta.{strides,offsets,sizes,total_size,format_modifier}
    bo_pc,      \* "new" before the backend call, then the entry point that ran
    bo_ret,     \* return value of the backend call
    img_live,   \* TRUE while the __DRIimage of bo->priv exists
    image_ext,  \* the optional entry points dri->image_extension has (non-NULL members)
    calls,      \* the calls made into the DRI driver's image and flush extensions, in order
    cr,         \* the arguments and locals of the dri_bo_create_common / dri_bo_import call
    dri,        \* struct dri_driver
    dri_pc,     \* position of the thread inside dri_init
    dri_ret,    \* return value of dri_init
    dri_held,   \* resources acquired and not yet released: fd, module, screen, context
    dri_released, \* the releases made, in order
    screen_exts, \* the extension list core_extension->getExtensions(dri->device) returns
    gmod,       \* struct gralloc0_module: initialized, driver, alloc, fb
    mutex,      \* owner of gralloc0_module::initialization_mutex, NoThread when free
    n_construct,    \* cros_gralloc_driver objects constructed so far
    n_device_open,  \* driver->init() / init_master() calls so far, each opening the device
    n_init_failed,  \* gralloc0_init calls that returned an error so far
    th,         \* per thread: the entry point it called and where it is in it
    supported,  \* the use-flag sets for which driver->is_supported answers true
    al,         \* one gralloc0_alloc call: arguments, driver calls made, outputs
    vmas,       \* struct vma of each mapping slot: addr, priv
    ndebug,     \* TRUE when the build defines NDEBUG, which compiles assert() to nothing
    proc,       \* "running", or "aborted" once an assert() has failed
    last,       \* the backend map/unmap/destroy call that returned last
    lk,         \* per thread: the gralloc0 lock/unlock/free call it is in
    bufs,       \* per buffer: whether it exists, and its live VMAs
    drv_mutex,  \* owner of the mutex held across backend map/unmap, NoThread when free
    n_lock_calls \* lock, unlock and free calls started so far

bo_vars == <<image, gem_size, bo, bo_pc, bo_ret, img_live, image_ext, calls, cr>>

dri_vars == <<dri, dri_pc, dri_ret, dri_held, dri_released, screen_exts>>

mod_vars == <<gmod, mutex, n_construct, n_device_open, n_init_failed, th>>

alloc_vars == <<supported, al>>

map_vars == <<vmas, ndebug, proc, last>>

lock_vars == <<lk, bufs, drv_mutex, n_lock_calls>>

vars == <<bo_vars, dri_vars, mod_vars, alloc_vars, map_vars, lock_vars>>

----------------------------------------------------------------------------
(* Program constants *)

DRV_MAX_PLANES == 4
ENOENT == 2
ENODEV == 19
EINVAL == 22
ENOSYS == 38

NULL == "NULL"

(* Bounds of the model *)
MaxOffsetSteps == 2
MaxExtensions == 2
MaxThreads == 2
MaxVmas == 2
MaxLockers == 2
MaxLockCalls == 3
MaxCalls == 6

U32_KIB == 2^22                      \* 2^32 bytes, counted in KiB
LIMB == 2^16

PlaneIdx == 0 .. (DRV_MAX_PLANES - 1)
Handles == {1, 2}
Offsets == {4 * k : k \in 0 .. MaxOffsetSteps}   \* offsets 4 KiB apart
DmaBufSizes == {4, 6}
Strides == {4}
Errnos == {ENOENT, EINVAL}              \* values errno may hold after a failed query

----------------------------------------------------------------------------
(* 64-bit words *)

RECURSIVE BitOr(_, _)
BitOr(a, b) ==
    IF a = 0 THEN b
    ELSE IF b = 0 THEN a
    ELSE (IF a % 2 = 1 \/ b % 2 = 1 THEN 1 ELSE 0) + 2 * BitOr(a \div 2, b \div 2)

(* (uint64_t)v of a 32-bit signed v: sign extension *)
CastU64(v) ==
    LET s == IF v < 0 THEN LIMB - 1 ELSE 0
    IN  <<s, s, (v \div LIMB) % LIMB, v % LIMB>>

(* (uint32_t)v of a 32-bit signed v, promoted to 64 bits for the | : zero extension *)
CastU32(v) == <<0, 0, (v \div LIMB) % LIMB, v % LIMB>>

Shl32(w) == <<w[3], w[4], 0, 0>>

Or64(a, b) == [k \in 1 .. 4 |-> BitOr(a[k], b[k])]

DRM_FORMAT_MOD_INVALID == <<255, LIMB - 1, LIMB - 1, LIMB - 1>>
DRM_FORMAT_MOD_LINEAR == <<0, 0, 0, 0>>

----------------------------------------------------------------------------
(* import_into_minigbm *)

PlaneQueries == {"stride", "offset", "fd", "lseek", "handle"}
NoFail == -1

(* The outcomes of the driver queries of one call: which of them fail. *)
QueryOutcomes(img) ==
    {[num_planes_ok |-> TRUE, fail_plane |-> NoFail, fail_query |-> "none", errno |-> 0]}
    \cup {[num_planes_ok |-> FALSE, fail_plane |-> NoFail, fail_query |-> "none", errno |-> e]
            : e \in Errnos}
    \cup {[num_planes_ok |-> TRUE, fail_plane |-> p, fail_query |-> fq, errno |-> e]
            : p \in 0 .. (img.num_planes - 1), fq \in PlaneQueries, e \in Errnos}

(* lines 99-106 *)
FormatModifierDropCast(img) ==
    IF img.upper_ok /\ img.lower_ok
    THEN Or64(Shl32(CastU64(img.modifier_upper)), CastU64(img.modifier_lower))
    ELSE DRM_FORMAT_MOD_INVALID

FormatModifier(img) ==
    IF img.upper_ok /\ img.lower_ok
    THEN Or64(Shl32(CastU64(img.modifier_upper)), CastU32(img.modifier_lower))
    ELSE DRM_FORMAT_MOD_INVALID

(* lines 111-150: the planes whose loop body ran to its end *)
PlanesDone(img, q) == IF q.fail_plane = NoFail THEN img.num_planes ELSE q.fail_plane

QueryPlanes(b, img, q) ==
    LET done == PlanesDone(img, q)
    IN  [b EXCEPT
           !.handles = [i \in PlaneIdx |-> IF i < done THEN img.planes[i].handle ELSE @[i]],
           !.strides = [i \in PlaneIdx |-> IF i < done THEN img.planes[i].stride ELSE @[i]],
           !.offsets = [i \in PlaneIdx |-> IF i < done THEN img.planes[i].offset ELSE @[i]]]

(* dmabuf_sizes[i] = lseek(prime_fd, 0, SEEK_END), line 127 *)
DmabufSizes(img, sizes) == [i \in PlaneIdx |-> sizes[img.planes[i].handle]]

(* lines 153-159: the inner loop over j *)
RECURSIVE NextPlaneLoopAnyHandle(_, _, _, _, _)
NextPlaneLoopAnyHandle(b, n, i, j, next_plane) ==
    IF j >= n THEN next_plane
    ELSE NextPlaneLoopAnyHandle(b, n, i, j + 1,
             IF /\ b.offsets[j] < next_plane
                /\ b.offsets[j] > b.offsets[i]
             THEN b.offsets[j] ELSE next_plane)

RECURSIVE NextPlaneLoop(_, _, _, _, _)
NextPlaneLoop(b, n, i, j, next_plane) ==
    IF j >= n THEN next_plane
    ELSE NextPlaneLoop(b, n, i, j + 1,
             IF /\ b.offsets[j] < next_plane
                /\ b.offsets[j] > b.offsets[i]
                /\ b.handles[j] = b.handles[i]
             THEN b.offsets[j] ELSE next_plane)

(* lines 153-159 with the scan left out: every plane runs to the end of its dma-buf *)
NextPlaneNoScan(b, n, i, dmabuf_size) == dmabuf_size

(* lines 153-159 with the scan started at the plane after i: only later planes count *)
NextPlaneFromNext(b, n, i, dmabuf_size) == NextPlaneLoop(b, n, i, i + 1, dmabuf_size)

NextPlane(b, n, i, dmabuf_size) == NextPlaneLoop(b, n, i, 0, dmabuf_size)

(* line 165 *)
AccumulateOverwrite(total, size) == size

Accumulate(total, size) == total + size

(* lines 152-166: the outer loop over i *)
RECURSIVE ResolveSizes(_, _, _, _)
ResolveSizes(b, n, dmabuf_sizes, i) ==
    IF i >= n THEN b
    ELSE LET next_plane == NextPlane(b, n, i, dmabuf_sizes[i])
             size == (next_plane - b.offsets[i]) % U32_KIB
         IN  ResolveSizes([b EXCEPT !.sizes[i] = size,
                                    !.total_size = Accumulate(@, size)],
                          n, dmabuf_sizes, i + 1)

(* lines 93-183; the result is the buffer object and the return value *)
import_into_minigbm(b, img, sizes, q) ==
    LET b1 == [b EXCEPT !.format_modifier = FormatModifier(img)]
    IN  IF ~q.num_planes_ok THEN [bo |-> b1, ret |-> -q.errno]
        ELSE LET b2 == QueryPlanes(b1, img, q)
             IN  IF q.fail_plane # NoFail THEN [bo |-> b2, ret |-> -q.errno]
                 ELSE [bo |-> ResolveSizes(b2, img.num_planes, DmabufSizes(img, sizes), 0),
                       ret |-> 0]

----------------------------------------------------------------------------
(* dri_bo_import *)

NewBo ==
    [priv |-> NULL,
     handles |-> [i \in PlaneIdx |-> 0],
     strides |-> [i \in PlaneIdx |-> 0],
     offsets |-> [i \in PlaneIdx |-> 0],
     sizes |-> [i \in PlaneIdx |-> 0],
     total_size |-> 0,
     format_modifier |-> DRM_FORMAT_MOD_LINEAR]

(* the members of __DRIimageExtension the code tests for NULL before use; lines 341, 409 *)
OptionalEntryPoints == {"createImageWithModifiers", "createImageFromDmaBufs2"}

(* no dri_bo_create_common or dri_bo_import call has been made *)
NoCreate ==
    [op |-> "none", format |-> "none", width |-> 0, height |-> 0, use_flags |-> {},
     modifier_count |-> 0, modifier |-> DRM_FORMAT_MOD_INVALID, num_planes |-> 0,
     reported_stride |-> 0, imported |-> FALSE, plane_image |-> FALSE]

(* a call into the driver: the entry point and the argument the model follows *)
Call(fn, arg) == [fn |-> fn, arg |-> arg]

(* line 406 *)
ImportEntryPoint(data_modifier) ==
    IF data_modifier # DRM_FORMAT_MOD_INVALID
    THEN "createImageFromDmaBufs2"
    ELSE "createImageFromFds"

dri_bo_import ==
    /\ bo_pc = "new"
    /\ bo_pc' = "dri_bo_import"
    /\ \E data_modifier \in {DRM_FORMAT_MOD_INVALID, DRM_FORMAT_MOD_LINEAR} :
          LET entry == ImportEntryPoint(data_modifier)
              create == Call(entry, data_modifier)
          IN  /\ cr' = [NoCreate EXCEPT !.op = "dri_bo_import", !.modifier = data_modifier]
              /\ \/ \* line 409: no createImageFromDmaBufs2 entry point
                    /\ entry = "createImageFromDmaBufs2"
                    /\ entry \notin image_ext
                    /\ bo_ret' = -ENOSYS
                    /\ UNCHANGED <<bo, img_live, calls>>
                 \/ \* lines 428, 438: the driver creates no image
                    /\ entry = "createImageFromDmaBufs2" => entry \in image_ext
                    /\ \E e \in Errnos :
                          bo_ret' = IF entry = "createImageFromDmaBufs2" THEN -ENOSYS ELSE -e
                    /\ calls' = calls \o <<create>>
                    /\ UNCHANGED <<bo, img_live>>
                 \/ \* lines 442-448
                    /\ entry = "createImageFromDmaBufs2" => entry \in image_ext
                    /\ \E q \in QueryOutcomes(image) :
                          LET r == import_into_minigbm([bo EXCEPT !.priv = "image"], image,
                                                       gem_size, q)
                          IN  /\ bo' = r.bo
                              /\ bo_ret' = r.ret
                              /\ img_live' = (r.ret = 0)
                              /\ calls' = calls \o <<create>> \o
                                    (IF r.ret # 0 THEN <<Call("destroyImage", "image")>> ELSE <<>>)
    /\ UNCHANGED <<image, gem_size, image_ext, dri_vars, mod_vars, alloc_vars, map_vars, lock_vars>>

----------------------------------------------------------------------------------------------------------------------------------------
(* lookup_extension and dri_init *)

DRI_CORE == "DRI_Core"
DRI_DRI2 == "DRI_DRI2"
DRI_IMAGE == "DRI_IMAGE"
DRI2_FLUSH == "DRI2_Flush"

(* An extension pointer is the position of the entry in its list; NoExt is NULL. *)
NoExt == 0

(* lines 60-70: index of the entry taken, 0 when the list ends without one *)
RECURSIVE LookupFromAnyVersion(_, _, _, _)
LookupFromAnyVersion(extensions, name, min_version, k) ==
    IF k > Len(extensions) THEN NoExt
    ELSE IF extensions[k].name # NULL /\ extensions[k].name = name
         THEN k
         ELSE LookupFromAnyVersion(extensions, name, min_version, k + 1)

RECURSIVE LookupFrom(_, _, _, _)
LookupFrom(extensions, name, min_version, k) ==
    IF k > Len(extensions) THEN NoExt
    ELSE IF /\ extensions[k].name # NULL
            /\ extensions[k].name = name
            /\ extensions[k].version >= min_version
         THEN k
         ELSE LookupFrom(extensions, name, min_version, k + 1)

lookup_extension(extensions, name, min_version) == LookupFrom(extensions, name, min_version, 1)

(* lines 243-252: the releases made from a cleanup label on *)
UnwindNoFallThrough(label) ==
    CASE label = "free_context" -> <<"context">>
      [] label = "free_screen" -> <<"screen">>
      [] label = "free_handle" -> <<"module">>
      [] label = "close_dri_fd" -> <<"fd">>

Unwind(label) ==
    CASE label = "free_context" -> <<"context", "screen", "module", "fd">>
      [] label = "free_screen" -> <<"screen", "module", "fd">>
      [] label = "free_handle" -> <<"module", "fd">>
      [] label = "close_dri_fd" -> <<"fd">>

Range(seq) == {seq[k] : k \in 1 .. Len(seq)}

(* goto label; ...; return -ENODEV *)
FailTo(label, d) ==
    /\ dri_released' = dri_released \o Unwind(label)
    /\ dri_held' = dri_held \ Range(Unwind(label))
    /\ dri' = IF label = "close_dri_fd" THEN d ELSE [d EXCEPT !.driver_handle = NULL]
    /\ dri_ret' = -ENODEV
    /\ dri_pc' = "done"

(* lines 196-241: the step that follows a successful step *)
StepAfterScreenBeforeDri2(step) ==
    CASE step = "open" -> "dlopen"
      [] step = "dlopen" -> "dlsym"
      [] step = "dlsym" -> "get_extensions"
      [] step = "get_extensions" -> "lookup_core"
      [] step = "lookup_core" -> "create_screen"
      [] step = "create_screen" -> "create_context"
      [] step = "create_context" -> "lookup_dri2"
      [] step = "lookup_dri2" -> "lookup_image"
      [] step = "lookup_image" -> "lookup_flush"

StepAfter(step) ==
    CASE step = "open" -> "dlopen"
      [] step = "dlopen" -> "dlsym"
      [] step = "dlsym" -> "get_extensions"
      [] step = "get_extensions" -> "lookup_core"
      [] step = "lookup_core" -> "lookup_dri2"
      [] step = "lookup_dri2" -> "create_screen"
      [] step = "create_screen" -> "create_context"
      [] step = "create_context" -> "lookup_image"
      [] step = "lookup_image" -> "lookup_flush"

Proceed(pc, d, acquired) ==
    /\ dri_pc' = pc
    /\ dri' = d
    /\ dri_held' = dri_held \cup acquired
    /\ UNCHANGED <<dri_ret, dri_released>>

ExtEntries(names, versions) ==
    [name : names, version : versions] \cup {[name |-> NULL, version |-> 0]}

ExtLists(names, versions) ==
    UNION {[1 .. n -> ExtEntries(names, versions)] : n \in 0 .. MaxExtensions}

(* what the driver's get-extensions symbol returns: NULL or a list *)
DriverExtLists == ExtLists({DRI_CORE, DRI_DRI2}, {1, 2, 4})
(* what the screen's getExtensions returns *)
ScreenExtLists == ExtLists({DRI_IMAGE, DRI2_FLUSH}, {4, 12})

NewDri ==
    [fd |-> 0, driver_handle |-> NULL, extensions |-> <<>>,
     core_extension |-> NoExt, dri2_extension |-> NoExt,
     device |-> NULL, context |-> NULL,
     image_extension |-> NoExt, flush_extension |-> NoExt]

(* lines 196-198 *)
dri_init_open ==
    /\ dri_pc = "open"
    /\ \/ Proceed(StepAfter(dri_pc), [dri EXCEPT !.fd = 3], {"fd"})
       \/ /\ dri' = [dri EXCEPT !.fd = -1]
          /\ dri_ret' = -ENODEV
          /\ dri_pc' = "done"
          /\ UNCHANGED <<dri_held, dri_released>>
    /\ UNCHANGED <<screen_exts, bo_vars, mod_vars, alloc_vars, map_vars, lock_vars>>

(* lines 200-202 *)
dri_init_dlopen ==
    /\ dri_pc = "dlopen"
    /\ \/ Proceed(StepAfter(dri_pc), [dri EXCEPT !.driver_handle = "driver"], {"module"})
       \/ FailTo("close_dri_fd", dri)
    /\ UNCHANGED <<screen_exts, bo_vars, mod_vars, alloc_vars, map_vars, lock_vars>>

(* lines 204-207 *)
dri_init_dlsym ==
    /\ dri_pc = "dlsym"
    /\ \/ Proceed(StepAfter(dri_pc), dri, {})
       \/ FailTo("free_handle", dri)
    /\ UNCHANGED <<screen_exts, bo_vars, mod_vars, alloc_vars, map_vars, lock_vars>>

(* lines 209-211 *)
dri_init_get_extensions ==
    /\ dri_pc = "get_extensions"
    /\ \/ \E l \in DriverExtLists : Proceed(StepAfter(dri_pc), [dri EXCEPT !.extensions = l], {})
       \/ FailTo("free_handle", dri)
    /\ UNCHANGED <<screen_exts, bo_vars, mod_vars, alloc_vars, map_vars, lock_vars>>

(* lines 213-215 *)
dri_init_lookup_core ==
    /\ dri_pc = "lookup_core"
    /\ LET k == lookup_extension(dri.extensions, DRI_CORE, 2)
       IN  IF k # NoExt
           THEN Proceed(StepAfter(dri_pc), [dri EXCEPT !.core_extension = k], {})
           ELSE FailTo("free_handle", dri)
    /\ UNCHANGED <<screen_exts, bo_vars, mod_vars, alloc_vars, map_vars, lock_vars>>

(* lines 218-220 *)
dri_init_lookup_dri2 ==
    /\ dri_pc = "lookup_dri2"
    /\ LET k == lookup_extension(dri.extensions, DRI_DRI2, 4)
       IN  IF k # NoExt
           THEN Proceed(StepAfter(dri_pc), [dri EXCEPT !.dri2_extension = k], {})
           ELSE FailTo("free_handle", dri)
    /\ UNCHANGED <<screen_exts, bo_vars, mod_vars, alloc_vars, map_vars, lock_vars>>

(* lines 222-225 *)
dri_init_create_screen ==
    /\ dri_pc = "create_screen"
    /\ \/ /\ \E l \in ScreenExtLists : screen_exts' = l
          /\ Proceed(StepAfter(dri_pc), [dri EXCEPT !.device = "screen"], {"screen"})
       \/ /\ FailTo("free_handle", dri)
          /\ UNCHANGED screen_exts
    /\ UNCHANGED <<bo_vars, mod_vars, alloc_vars, map_vars, lock_vars>>

(* lines 227-231 *)
dri_init_create_context ==
    /\ dri_pc = "create_context"
    /\ \/ Proceed(StepAfter(dri_pc), [dri EXCEPT !.context = "context"], {"context"})
       \/ FailTo("free_screen", dri)
    /\ UNCHANGED <<screen_exts, bo_vars, mod_vars, alloc_vars, map_vars, lock_vars>>

(* lines 233-235 *)
dri_init_lookup_image ==
    /\ dri_pc = "lookup_image"
    /\ LET k == lookup_extension(screen_exts, DRI_IMAGE, 12)
       IN  IF k # NoExt
           THEN Proceed(StepAfter(dri_pc), [dri EXCEPT !.image_extension = k], {})
           ELSE FailTo("free_context", dri)
    /\ UNCHANGED <<screen_exts, bo_vars, mod_vars, alloc_vars, map_vars, lock_vars>>

(* lines 237-241 *)
dri_init_lookup_flush ==
    /\ dri_pc = "lookup_flush"
    /\ LET k == lookup_extension(screen_exts, DRI2_FLUSH, 4)
       IN  IF k # NoExt
           THEN /\ dri' = [dri EXCEPT !.flush_extension = k]
                /\ dri_ret' = 0
                /\ dri_pc' = "done"
                /\ UNCHANGED <<dri_held, dri_released>>
           ELSE FailTo("free_context", dri)
    /\ UNCHANGED <<screen_exts, bo_vars, mod_vars, alloc_vars, map_vars, lock_vars>>

----------------------------------------------------------------------------
(* gralloc0 module: gralloc0_init, gralloc0_open, gralloc0_open_fb0,
   gralloc0_register_buffer.  Every access to the shared module is a step. *)

Threads == 1 .. MaxThreads
NoThread == 0

GRALLOC_HARDWARE_GPU0 == "gpu0"
GRALLOC_HARDWARE_FB0 == "fb0"
DeviceNames == {GRALLOC_HARDWARE_GPU0, GRALLOC_HARDWARE_FB0, "other"}

NewModule == [initialized |-> FALSE, driver |-> 0, alloc |-> NULL, fb |-> NULL]

IdleThread ==
    [call |-> "none", name |-> "none", pc |-> "idle", ret |-> 0, dev |-> NULL,
     framebuffer |-> FALSE, init_ret |-> 0,
     first_time |-> FALSE,   \* entered while the module was untouched
     late |-> FALSE,         \* entered after a gralloc0_init had returned an error
     brought_up |-> FALSE,   \* ran the driver bring-up of lines 157-158
     prev_alloc |-> NULL]    \* mod->alloc before the store of line 164

Goto(t, pc) == th' = [th EXCEPT ![t].pc = pc]

Return(t, ret, dev) == th' = [th EXCEPT ![t].pc = "done", ![t].ret = ret, ![t].dev = dev]

(* where gralloc0_init returns to; lines 188, 235, 248 *)
AfterInit(t) ==
    CASE th[t].call = "gralloc0_open" -> "open_after_init"
      [] th[t].call = "gralloc0_open_fb0" -> "fb0_after_init"
      [] th[t].call = "gralloc0_register_buffer" -> "reg_after_init"

(* return from gralloc0_init to the caller: the lock_guard releases the mutex *)
InitReturn(t, ret) ==
    /\ mutex' = NoThread
    /\ th' = [th EXCEPT ![t].init_ret = ret, ![t].pc = AfterInit(t)]
    /\ n_init_failed' = IF ret # 0 THEN n_init_failed + 1 ELSE n_init_failed

(* a call of gralloc0_init(mod, initialize_alloc = true, framebuffer) *)
CallInit(t, framebuffer) ==
    th' = [th EXCEPT ![t].pc = "init_lock", ![t].framebuffer = framebuffer]

Untouched == ~gmod.initialized /\ n_construct = 0

(* a thread enters one of the entry points; lines 217-223, 183, 242-245 *)
call_entry(t) ==
    /\ th[t].pc = "idle"
    /\ \/ \E name \in DeviceNames :
             th' = [th EXCEPT ![t].call = IF name = GRALLOC_HARDWARE_FB0
                                          THEN "gralloc0_open_fb0" ELSE "gralloc0_open",
                              ![t].name = name,
                              ![t].first_time = Untouched,
                              ![t].late = n_init_failed > 0,
                              ![t].pc = IF name = GRALLOC_HARDWARE_FB0
                                        THEN "fb0_check" ELSE "open_check"]
       \/ th' = [th EXCEPT ![t].call = "gralloc0_register_buffer",
                           ![t].first_time = Untouched,
                           ![t].late = n_init_failed > 0,
                           ![t].pc = "reg_check"]
    /\ UNCHANGED <<gmod, mutex, n_construct, n_device_open, n_init_failed>>

(* line 152 *)
init_lock(t) ==
    /\ th[t].pc = "init_lock"
    /\ mutex = NoThread
    /\ mutex' = t
    /\ Goto(t, "init_check")
    /\ UNCHANGED <<gmod, n_construct, n_device_open, n_init_failed>>

(* lines 154-155 *)
init_check(t) ==
    /\ th[t].pc = "init_check"
    /\ IF gmod.initialized
       THEN InitReturn(t, 0)
       ELSE Goto(t, "init_driver") /\ UNCHANGED <<mutex, n_init_failed>>
    /\ UNCHANGED <<gmod, n_construct, n_device_open>>

(* lines 157-161 *)
init_driver(t) ==
    /\ th[t].pc = "init_driver"
    /\ gmod' = [gmod EXCEPT !.driver = n_construct + 1]
    /\ n_construct' = n_construct + 1
    /\ n_device_open' = n_device_open + 1
    /\ \/ /\ th' = [th EXCEPT ![t].pc = "init_alloc", ![t].brought_up = TRUE]
          /\ UNCHANGED <<mutex, n_init_failed>>
       \/ /\ mutex' = NoThread
          /\ th' = [th EXCEPT ![t].pc = AfterInit(t), ![t].init_ret = -ENODEV,
                              ![t].brought_up = TRUE]
          /\ n_init_failed' = n_init_failed + 1

(* lines 163-171 *)
init_alloc(t) ==
    /\ th[t].pc = "init_alloc"
    /\ gmod' = [gmod EXCEPT !.alloc = "alloc"]
    /\ th' = [th EXCEPT ![t].pc = IF th[t].framebuffer THEN "init_fb" ELSE "init_flag",
                        ![t].prev_alloc = gmod.alloc]
    /\ UNCHANGED <<mutex, n_construct, n_device_open, n_init_failed>>

(* lines 174, 208: the framebuffer drm_framebuffer_init stores in mod->fb; each successful
   call stores a new one *)
NewFramebuffer(fb) ==
    CASE fb = NULL -> "fb"
      [] fb = "fb" -> "fb_2"
      [] OTHER -> "fb_3"

(* lines 173-177 *)
init_fb(t) ==
    /\ th[t].pc = "init_fb"
    /\ \/ /\ gmod' = [gmod EXCEPT !.fb = NewFramebuffer(@)]
          /\ Goto(t, "init_flag")
          /\ UNCHANGED <<mutex, n_init_failed>>
       \/ /\ InitReturn(t, -EINVAL)
          /\ UNCHANGED gmod
    /\ UNCHANGED <<n_construct, n_device_open>>

(* lines 179-180 *)
init_flag(t) ==
    /\ th[t].pc = "init_flag"
    /\ gmod' = [gmod EXCEPT !.initialized = TRUE]
    /\ InitReturn(t, 0)
    /\ UNCHANGED <<n_construct, n_device_open>>

(* lines 225-235.  module->initialized and module->alloc are read without the mutex: while
   another thread is at the store of line 179 the read races with it, and a build that
   makes that store visible before the store of line 164 shows the flag set together with
   the alloc pointer from before line 164. *)
open_check(t) ==
    /\ th[t].pc = "open_check"
    /\ \/ IF gmod.initialized THEN Return(t, 0, gmod.alloc)
          ELSE IF th[t].name # GRALLOC_HARDWARE_GPU0 THEN Return(t, -EINVAL, NULL)
          ELSE CallInit(t, FALSE)
       \/ \E u \in Threads \ {t} :
             /\ th[u].pc = "init_flag"
             /\ Return(t, 0, th[u].prev_alloc)
    /\ UNCHANGED <<gmod, mutex, n_construct, n_device_open, n_init_failed>>

(* lines 235-239 *)
open_after_init(t) ==
    /\ th[t].pc = "open_after_init"
    /\ IF th[t].init_ret # 0 THEN Return(t, -ENODEV, NULL) ELSE Return(t, 0, gmod.alloc)
    /\ UNCHANGED <<gmod, mutex, n_construct, n_device_open, n_init_failed>>

(* lines 187-188 *)
fb0_check(t) ==
    /\ th[t].pc = "fb0_check"
    /\ IF gmod.initialized THEN Goto(t, "fb0_fb_check") ELSE CallInit(t, TRUE)
    /\ UNCHANGED <<gmod, mutex, n_construct, n_device_open, n_init_failed>>

(* lines 189-190 *)
fb0_after_init(t) ==
    /\ th[t].pc = "fb0_after_init"
    /\ IF th[t].init_ret # 0 THEN Return(t, th[t].init_ret, NULL) ELSE Goto(t, "fb0_fb_check")
    /\ UNCHANGED <<gmod, mutex, n_construct, n_device_open, n_init_failed>>

(* line 193 *)
fb0_fb_check(t) ==
    /\ th[t].pc = "fb0_fb_check"
    /\ Goto(t, IF gmod.fb = NULL THEN "fb0_lock" ELSE "fb0_return")
    /\ UNCHANGED <<gmod, mutex, n_construct, n_device_open, n_init_failed>>

(* line 205 *)
fb0_lock(t) ==
    /\ th[t].pc = "fb0_lock"
    /\ mutex = NoThread
    /\ mutex' = t
    /\ Goto(t, "fb0_fb_init")
    /\ UNCHANGED <<gmod, n_construct, n_device_open, n_init_failed>>

(* lines 208-211 *)
fb0_fb_init(t) ==
    /\ th[t].pc = "fb0_fb_init"
    /\ mutex' = NoThread
    /\ \/ gmod' = [gmod EXCEPT !.fb = NewFramebuffer(@)] /\ Goto(t, "fb0_return")
       \/ UNCHANGED gmod /\ Return(t, -EINVAL, NULL)
    /\ UNCHANGED <<n_construct, n_device_open, n_init_failed>>

(* lines 213-214 *)
fb0_return(t) ==
    /\ th[t].pc = "fb0_return"
    /\ Return(t, 0, gmod.fb)
    /\ UNCHANGED <<gmod, mutex, n_construct, n_device_open, n_init_failed>>

(* lines 247-248 *)
reg_check(t) ==
    /\ th[t].pc = "reg_check"
    /\ IF gmod.initialized THEN Goto(t, "reg_retain") ELSE CallInit(t, FALSE)
    /\ UNCHANGED <<gmod, mutex, n_construct, n_device_open, n_init_failed>>

(* lines 248-249 *)
reg_after_init(t) ==
    /\ th[t].pc = "reg_after_init"
    /\ IF th[t].init_ret # 0 THEN Return(t, -ENODEV, NULL) ELSE Goto(t, "reg_retain")
    /\ UNCHANGED <<gmod, mutex, n_construct, n_device_open, n_init_failed>>

(* lines 251-254: retain either takes the handle or rejects it *)
reg_retain(t) ==
    /\ th[t].pc = "reg_retain"
    /\ \E ret \in {0, -EINVAL} : Return(t, ret, NULL)
    /\ UNCHANGED <<gmod, mutex, n_construct, n_device_open, n_init_failed>>

----------------------------------------------------------------------------
(* gralloc0_convert_usage and gralloc0_alloc.  A bit mask is the set of its bits. *)

GRALLOC_USAGE_SW_READ_RARELY == {2}
GRALLOC_USAGE_SW_READ_OFTEN == {1, 2}
GRALLOC_USAGE_SW_READ_MASK == {1, 2, 4, 8}
GRALLOC_USAGE_SW_WRITE_RARELY == {32}
GRALLOC_USAGE_SW_WRITE_OFTEN == {16, 32}
GRALLOC_USAGE_SW_WRITE_MASK == {16, 32, 64, 128}
GRALLOC_USAGE_HW_TEXTURE == {256}
GRALLOC_USAGE_HW_RENDER == {512}
GRALLOC_USAGE_HW_2D == {1024}
GRALLOC_USAGE_HW_COMPOSER == {2048}
GRALLOC_USAGE_HW_FB == {4096}
GRALLOC_USAGE_EXTERNAL_DISP == {8192}
GRALLOC_USAGE_PROTECTED == {16384}
GRALLOC_USAGE_CURSOR == {32768}
GRALLOC_USAGE_HW_VIDEO_ENCODER == {65536}
GRALLOC_USAGE_HW_CAMERA_WRITE == {131072}
GRALLOC_USAGE_HW_CAMERA_READ == {262144}
GRALLOC_USAGE_RENDERSCRIPT == {1048576}

BO_USE_NONE == {}
BO_USE_SCANOUT == {"BO_USE_SCANOUT"}
BO_USE_RENDERING == {"BO_USE_RENDERING"}
BO_USE_SW_READ_RARELY == {"BO_USE_SW_READ_RARELY"}
BO_USE_SW_READ_OFTEN == {"BO_USE_SW_READ_OFTEN"}
BO_USE_SW_WRITE_RARELY == {"BO_USE_SW_WRITE_RARELY"}
BO_USE_SW_WRITE_OFTEN == {"BO_USE_SW_WRITE_OFTEN"}
BO_USE_PROTECTED == {"BO_USE_PROTECTED"}
BO_USE_CAMERA_WRITE == {"BO_USE_CAMERA_WRITE"}
BO_USE_CAMERA_READ == {"BO_USE_CAMERA_READ"}
BO_USE_RENDERSCRIPT == {"BO_USE_RENDERSCRIPT"}
BO_USE_TEXTURE == {"BO_USE_TEXTURE"}
BO_USE_FRAMEBUFFER == {"BO_USE_FRAMEBUFFER"}

(* usage & mask *)
And(usage, mask) == usage \cap mask

(* if (cond) use_flags |= flags *)
If(cond, flags) == IF cond THEN flags ELSE {}

(* lines 40-84 *)
gralloc0_convert_usage(usage) ==
    BO_USE_NONE
    \cup If(And(usage, GRALLOC_USAGE_CURSOR) # {}, BO_USE_NONE)
    \cup If(And(usage, GRALLOC_USAGE_SW_READ_MASK) = GRALLOC_USAGE_SW_READ_RARELY,
            BO_USE_SW_READ_RARELY)
    \cup If(And(usage, GRALLOC_USAGE_SW_READ_MASK) = GRALLOC_USAGE_SW_READ_OFTEN,
            BO_USE_SW_READ_OFTEN)
    \cup If(And(usage, GRALLOC_USAGE_SW_WRITE_MASK) = GRALLOC_USAGE_SW_WRITE_RARELY,
            BO_USE_SW_WRITE_RARELY)
    \cup If(And(usage, GRALLOC_USAGE_SW_WRITE_MASK) = GRALLOC_USAGE_SW_WRITE_OFTEN,
            BO_USE_SW_WRITE_OFTEN)
    \cup If(And(usage, GRALLOC_USAGE_HW_TEXTURE) # {}, BO_USE_TEXTURE)
    \cup If(And(usage, GRALLOC_USAGE_HW_RENDER) # {}, BO_USE_RENDERING)
    \cup If(And(usage, GRALLOC_USAGE_HW_2D) # {}, BO_USE_RENDERING)
    \cup If(And(usage, GRALLOC_USAGE_HW_COMPOSER) # {}, BO_USE_SCANOUT \cup BO_USE_TEXTURE)
    \cup If(And(usage, GRALLOC_USAGE_HW_FB) # {}, BO_USE_FRAMEBUFFER)
    \cup If(And(usage, GRALLOC_USAGE_EXTERNAL_DISP) # {}, BO_USE_NONE)
    \cup If(And(usage, GRALLOC_USAGE_PROTECTED) # {}, BO_USE_PROTECTED)
    \cup If(And(usage, GRALLOC_USAGE_HW_VIDEO_ENCODER) # {}, BO_USE_SW_READ_OFTEN)
    \cup If(And(usage, GRALLOC_USAGE_HW_CAMERA_WRITE) # {}, BO_USE_CAMERA_WRITE)
    \cup If(And(usage, GRALLOC_USAGE_HW_CAMERA_READ) # {}, BO_USE_CAMERA_READ)
    \cup If(And(usage, GRALLOC_USAGE_RENDERSCRIPT) # {}, BO_USE_RENDERSCRIPT)

(* mod->driver->is_supported(&descriptor): the driver's answer for these use-flags *)
is_supported(use_flags) == use_flags \in supported

(* line 114 *)
RetryWhenever(is_sup, usage) == ~is_sup

RetryWithoutScanout(is_sup, usage) == ~is_sup /\ And(usage, GRALLOC_USAGE_HW_COMPOSER) # {}

(* line 115 *)
KeepScanout(use_flags) == use_flags

DropScanout(use_flags) == use_flags \ BO_USE_SCANOUT

(* what mod->driver->allocate can return: 0, or a negative errno *)
AllocateResults == {0, -ENOENT}

(* lines 98-135: one call of gralloc0_alloc *)
gralloc0_alloc ==
    /\ al.pc = "call"
    /\ LET use_flags == gralloc0_convert_usage(al.usage)
           first == is_supported(use_flags)
           retry == RetryWithoutScanout(first, al.usage)
           flags == IF retry THEN DropScanout(use_flags) ELSE use_flags
           is_sup == IF retry THEN is_supported(flags) ELSE first
           checks == IF retry THEN <<use_flags, flags>> ELSE <<use_flags>>
       IN  IF ~is_sup
           THEN al' = [al EXCEPT !.pc = "done", !.use_flags = flags, !.checks = checks,
                                 !.ret = -EINVAL]
           ELSE \E alloc_ret \in AllocateResults :
                   al' = [al EXCEPT !.pc = "done", !.use_flags = flags, !.checks = checks,
                                    !.allocated = <<flags>>,
                                    !.alloc_ret = alloc_ret,
                                    !.ret = alloc_ret,
                                    !.handle = IF alloc_ret = 0 THEN "handle" ELSE @,
                                    !.stride = IF alloc_ret = 0 THEN "pixel_stride" ELSE @]
    /\ UNCHANGED <<supported, bo_vars, dri_vars, mod_vars, map_vars, lock_vars>>

(* the usage bits the calls are made with *)
AllocUsageBits ==
    UNION {GRALLOC_USAGE_SW_READ_OFTEN, GRALLOC_USAGE_HW_TEXTURE, GRALLOC_USAGE_HW_RENDER,
           GRALLOC_USAGE_HW_COMPOSER, GRALLOC_USAGE_HW_FB}

NewAlloc(usage) ==
    [pc |-> "call", usage |-> usage, use_flags |-> {}, checks |-> <<>>, allocated |-> <<>>,
     alloc_ret |-> 0, ret |-> 0, handle |-> "unset", stride |-> "unset"]

----------------------------------------------------------------------------
(* dri_bo_create_common.  Widths, strides and sizes are in bytes. *)

(* lines 29-44: the DRM formats that have a DRI image format *)
drm_to_dri_image_formats ==
    {"DRM_FORMAT_R8", "DRM_FORMAT_GR88", "DRM_FORMAT_RGB565", "DRM_FORMAT_XRGB8888",
     "DRM_FORMAT_ARGB8888", "DRM_FORMAT_XBGR8888", "DRM_FORMAT_ABGR8888",
     "DRM_FORMAT_XRGB2101010", "DRM_FORMAT_XBGR2101010", "DRM_FORMAT_ARGB2101010",
     "DRM_FORMAT_ABGR2101010"}

(* lines 46-55: the DRI image format, 0 when the table has none *)
drm_format_to_dri_format(format) ==
    IF format \in drm_to_dri_image_formats THEN format ELSE "0"

DRI_IMAGE_FORMAT_R8 == "DRM_FORMAT_R8"

BO_USE_CURSOR == {"BO_USE_CURSOR"}
BO_USE_LINEAR == {"BO_USE_LINEAR"}
BO_USE_SW_MASK ==
    UNION {BO_USE_SW_READ_OFTEN, BO_USE_SW_READ_RARELY,
           BO_USE_SW_WRITE_OFTEN, BO_USE_SW_WRITE_RARELY}

DRI_IMAGE_USE_SHARE == {"__DRI_IMAGE_USE_SHARE"}
DRI_IMAGE_USE_SCANOUT == {"__DRI_IMAGE_USE_SCANOUT"}
DRI_IMAGE_USE_CURSOR == {"__DRI_IMAGE_USE_CURSOR"}
DRI_IMAGE_USE_LINEAR == {"__DRI_IMAGE_USE_LINEAR"}

(* lines 317-324 *)
DriUse(use_flags) ==
    DRI_IMAGE_USE_SHARE
    \cup If(And(use_flags, BO_USE_SCANOUT) # {}, DRI_IMAGE_USE_SCANOUT)
    \cup If(And(use_flags, BO_USE_CURSOR) # {}, DRI_IMAGE_USE_CURSOR)
    \cup If(And(use_flags, BO_USE_LINEAR \cup BO_USE_SW_MASK) # {}, DRI_IMAGE_USE_LINEAR)

DIV_ROUND_UP(n, d) == (n + d - 1) \div d

(* the byte-layout rules: planes of a format, and the stride and height of each plane
   for a plane-0 stride and a height *)
drv_num_planes_from_format(format) ==
    CASE format = "DRM_FORMAT_NV12" -> 2
      [] format = "DRM_FORMAT_YVU420" -> 3
      [] OTHER -> 1

drv_bytes_per_pixel_from_format(format, plane) ==
    CASE format \in {"DRM_FORMAT_NV12", "DRM_FORMAT_YVU420", "DRM_FORMAT_R8"} -> 1
      [] OTHER -> 4

drv_stride_from_format(format, width, plane) ==
    width * drv_bytes_per_pixel_from_format(format, plane)

PlaneStride(format, stride, plane) ==
    IF plane = 0 \/ format = "DRM_FORMAT_NV12" THEN stride ELSE DIV_ROUND_UP(stride, 2)

PlaneHeight(format, height, plane) ==
    IF plane = 0 THEN height ELSE DIV_ROUND_UP(height, 2)

PlaneSize(format, stride, height, plane) ==
    PlaneStride(format, stride, plane) * PlaneHeight(format, height, plane)

RECURSIVE PlaneOffset(_, _, _, _)
PlaneOffset(format, stride, height, plane) ==
    IF plane = 0 THEN 0
    ELSE PlaneOffset(format, stride, height, plane - 1)
         + PlaneSize(format, stride, height, plane - 1)

(* drv_bo_from_format: the layout written into bo->meta *)
drv_bo_from_format(b, stride, height, format) ==
    LET n == drv_num_planes_from_format(format)
    IN  [b EXCEPT
           !.strides = [i \in PlaneIdx |->
                          IF i < n THEN PlaneStride(format, stride, i) ELSE @[i]],
           !.sizes = [i \in PlaneIdx |->
                          IF i < n THEN PlaneSize(format, stride, height, i) ELSE @[i]],
           !.offsets = [i \in PlaneIdx |->
                          IF i < n THEN PlaneOffset(format, stride, height, i) ELSE @[i]],
           !.total_size = PlaneOffset(format, stride, height, n)]

CreateFormats == {"DRM_FORMAT_XRGB8888", "DRM_FORMAT_NV12", "DRM_FORMAT_YVU420"}
CreateWidths == {4}
CreateHeights == {3}
CreateUseFlags ==
    SUBSET UNION {BO_USE_SCANOUT, BO_USE_CURSOR, BO_USE_LINEAR, BO_USE_SW_READ_OFTEN}

(* strides queryImage(__DRI_IMAGE_ATTRIB_STRIDE) may report for an image width_ texels wide *)
ReportedStrides(width_) == {width_, 2 * width_}

(* line 369: the stride the final layout is computed from *)
LayoutStrideAsRequested(reported, requested) == requested

LayoutStride(reported, requested) == reported

(* lines 374-375 *)
SharePlaneHandles(b, num_planes) ==
    [b EXCEPT !.handles = [i \in PlaneIdx |->
                              IF 0 < i /\ i < num_planes THEN @[0] ELSE @[i]]]

(* line 335: the entry point that creates the image *)
CreateWithoutModifiers(modifier_count) == "createImage"

CreateEntryPoint(modifier_count) ==
    IF modifier_count = 0 THEN "createImage" ELSE "createImageWithModifiers"

(* lines 302-387 *)
dri_bo_create_common(width, height, format, use_flags, modifier_count) ==
    LET dri_format_unavailable == drm_format_to_dri_format(format) = "0"
        stride == drv_stride_from_format(format, width, 0)
        bo1 == IF dri_format_unavailable
               THEN drv_bo_from_format(bo, stride, height, format)
               ELSE bo
        dri_format == IF dri_format_unavailable THEN DRI_IMAGE_FORMAT_R8
                      ELSE drm_format_to_dri_format(format)
        dri_use == DriUse(use_flags)
                   \cup If(dri_format_unavailable, DRI_IMAGE_USE_LINEAR)
        width_ == IF dri_format_unavailable
                  THEN stride \div drv_bytes_per_pixel_from_format(format, 0)
                  ELSE width
        height_ == IF dri_format_unavailable
                   THEN DIV_ROUND_UP(bo1.total_size, width_)
                   ELSE height
        num_planes == drv_num_planes_from_format(format)
        entry == CreateEntryPoint(modifier_count)
        create == IF entry = "createImage"
                  THEN Call("createImage",
                            [width |-> width_, height |-> height_,
                             dri_format |-> dri_format, dri_use |-> dri_use])
                  ELSE Call("createImageWithModifiers",
                            [width |-> width, height |-> height,
                             dri_format |-> dri_format, modifier_count |-> modifier_count])
        request == [NoCreate EXCEPT !.op = "dri_bo_create_common", !.format = format,
                                    !.width = width, !.height = height,
                                    !.use_flags = use_flags,
                                    !.modifier_count = modifier_count,
                                    !.num_planes = num_planes]
    IN  /\ bo_pc = "new"
        /\ bo_pc' = "dri_bo_create_common"
        /\ \/ \* lines 339-341
              /\ entry = "createImageWithModifiers"
              /\ entry \notin image_ext
              /\ bo' = bo1
              /\ bo_ret' = -ENOENT
              /\ cr' = request
              /\ UNCHANGED <<img_live, calls>>
           \/ \* lines 346-349: the driver creates no image
              /\ entry = "createImageWithModifiers" => entry \in image_ext
              /\ bo' = bo1
              /\ \E e \in Errnos : bo_ret' = -e
              /\ calls' = calls \o <<create>>
              /\ cr' = request
              /\ UNCHANGED img_live
           \/ \* lines 351-367: a query of the fallback image fails
              /\ entry = "createImageWithModifiers" => entry \in image_ext
              /\ dri_format_unavailable
              /\ \E plane_image \in BOOLEAN, handle_ok \in BOOLEAN, handle \in Handles,
                    e \in Errnos :
                    /\ bo' = [bo1 EXCEPT !.priv = "image",
                                         !.handles[0] = IF handle_ok THEN handle ELSE @]
                    /\ bo_ret' = -e
                    /\ calls' = calls \o <<create, Call("fromPlanar", 0),
                                           Call("queryImage", "HANDLE")>>
                                 \o (IF handle_ok THEN <<Call("queryImage", "STRIDE")>>
                                     ELSE <<>>)
                                 \o <<Call("destroyImage", "image")>>
                    /\ cr' = [request EXCEPT !.plane_image = plane_image]
              /\ img_live' = FALSE
           \/ \* lines 351-375, 382
              /\ entry = "createImageWithModifiers" => entry \in image_ext
              /\ dri_format_unavailable
              /\ \E plane_image \in BOOLEAN, handle \in Handles,
                    reported \in ReportedStrides(width_) :
                    /\ bo' = SharePlaneHandles(
                                drv_bo_from_format(
                                   [bo1 EXCEPT !.priv = "image", !.handles[0] = handle],
                                   LayoutStride(reported, stride), height, format),
                                num_planes)
                    /\ calls' = calls \o <<create, Call("fromPlanar", 0),
                                           Call("queryImage", "HANDLE"),
                                           Call("queryImage", "STRIDE")>>
                                 \o (IF plane_image THEN <<Call("destroyImage", "plane_image")>>
                                     ELSE <<>>)
                    /\ cr' = [request EXCEPT !.reported_stride = reported,
                                              !.plane_image = plane_image]
              /\ bo_ret' = 0
              /\ img_live' = TRUE
           \/ \* lines 377-382, 385-386
              /\ entry = "createImageWithModifiers" => entry \in image_ext
              /\ ~dri_format_unavailable
              /\ \E q \in QueryOutcomes(image) :
                    LET r == import_into_minigbm([bo1 EXCEPT !.priv = "image"], image,
                                                 gem_size, q)
                    IN  /\ bo' = r.bo
                        /\ bo_ret' = r.ret
                        /\ img_live' = (r.ret = 0)
                        /\ calls' = calls \o <<create>> \o
                              (IF r.ret # 0 THEN <<Call("destroyImage", "image")>> ELSE <<>>)
              /\ cr' = [request EXCEPT !.imported = TRUE]
        /\ UNCHANGED <<image, gem_size, image_ext, dri_vars, mod_vars, alloc_vars, map_vars,
                       lock_vars>>

(* lines 389-393 *)
dri_bo_create ==
    \E width \in CreateWidths, height \in CreateHeights, format \in CreateFormats,
       use_flags \in CreateUseFlags :
          dri_bo_create_common(width, height, format, use_flags, 0)

(* lines 395-399 *)
dri_bo_create_with_modifiers ==
    \E width \in CreateWidths, height \in CreateHeights, format \in CreateFormats,
       modifier_count \in 0 .. 1 :
          dri_bo_create_common(width, height, format, {}, modifier_count)

----------------------------------------------------------------------------
(* import_into_minigbm: the plane images and dma-buf descriptors it obtains and releases *)

(* lines 170-171: what the cleanup label releases *)
CleanupNothing(plane, plane_image) == <<>>

Cleanup(plane, plane_image) ==
    IF plane_image THEN <<Call("destroyImage", plane)>> ELSE <<>>

(* lines 111-149: the calls of the loop from plane i on that obtain or release a plane image
   or a descriptor; planar[i] tells whether fromPlanar answers with a plane image *)
RECURSIVE PlaneLoopCalls(_, _, _, _)
PlaneLoopCalls(img, q, planar, i) ==
    IF i >= img.num_planes THEN <<>>
    ELSE LET plane_image == planar[i]
             got_image == IF plane_image THEN <<Call("fromPlanar", i)>> ELSE <<>>
             fails(fq) == q.fail_plane = i /\ q.fail_query = fq
         IN  IF fails("stride") \/ fails("offset") \/ fails("fd")
             THEN got_image \o Cleanup(i, plane_image)
             ELSE IF fails("lseek")
             THEN got_image \o <<Call("queryImage FD", i), Call("close", i)>>
                            \o Cleanup(i, plane_image)
             ELSE IF fails("handle")
             THEN got_image \o <<Call("queryImage FD", i), Call("close", i)>>
                            \o Cleanup(i, plane_image)
             ELSE got_image \o <<Call("queryImage FD", i), Call("close", i)>>
                            \o (IF plane_image THEN <<Call("destroyImage", i)>> ELSE <<>>)
                            \o PlaneLoopCalls(img, q, planar, i + 1)

(* lines 93-183: one call of import_into_minigbm on a created image *)
import_call ==
    /\ bo_pc = "new"
    /\ bo_pc' = "import_into_minigbm"
    /\ \E q \in QueryOutcomes(image), planar \in [PlaneIdx -> BOOLEAN] :
          LET r == import_into_minigbm([bo EXCEPT !.priv = "image"], image, gem_size, q)
          IN  /\ bo' = r.bo
              /\ bo_ret' = r.ret
              /\ calls' = IF q.num_planes_ok THEN PlaneLoopCalls(image, q, planar, 0)
                          ELSE <<>>
              /\ cr' = [NoCreate EXCEPT !.op = "import_into_minigbm", !.imported = TRUE,
                                        !.num_planes = PlanesDone(image, q)]
    /\ img_live' = TRUE
    /\ UNCHANGED <<image, gem_size, image_ext, dri_vars, mod_vars, alloc_vars, map_vars,
                   lock_vars>>

----------------------------------------------------------------------------
(* dri_bo_map, dri_bo_unmap, dri_bo_destroy: the backend's map, unmap and destroy *)

Vmas == 1 .. MaxVmas

MAP_FAILED == "MAP_FAILED"

NewVma == [addr |-> NULL, priv |-> NULL]

NoCall == [op |-> "none", vma |-> 0, had_priv |-> FALSE, ret |-> 0, made |-> <<>>]

(* the backend call that just returned, and the driver calls it made *)
Returned(op, v, ret, made) ==
    last' = [op |-> op, vma |-> v, had_priv |-> (v # 0 /\ vmas[v].priv # NULL), ret |-> ret,
             made |-> made]

(* assert(cond): a build without NDEBUG aborts when cond is false *)
AssertAborts(cond) == ~cond /\ ~ndebug

(* the process has not aborted and the driver-call log has room *)
CanCall == proc = "running" /\ bo.priv # NULL /\ Len(calls) + 2 <= MaxCalls

(* lines 470-482: mapImage either maps, writing the address and the mapping token, or
   returns NULL *)
dri_bo_map(v) ==
    /\ CanCall
    /\ calls' = calls \o <<Call("mapImage", bo.priv)>>
    /\ \/ /\ vmas' = [vmas EXCEPT ![v] = [addr |-> "addr", priv |-> "map_data"]]
          /\ Returned("dri_bo_map", v, "addr", <<Call("mapImage", bo.priv)>>)
       \/ /\ vmas' = [vmas EXCEPT ![v].addr = NULL]
          /\ Returned("dri_bo_map", v, MAP_FAILED, <<Call("mapImage", bo.priv)>>)
    /\ UNCHANGED <<image, gem_size, bo, bo_pc, bo_ret, img_live, image_ext, cr, ndebug, proc>>

(* lines 488-499: the driver calls of dri_bo_unmap after its assert *)
UnmapCallsNoFlush(priv) == <<Call("unmapImage", priv)>>

UnmapCalls(priv) ==
    <<Call("unmapImage", priv), Call("flush_with_flags", "__DRI2_FLUSH_CONTEXT")>>

(* lines 484-501 *)
dri_bo_unmap(v) ==
    /\ CanCall
    /\ IF AssertAborts(vmas[v].priv # NULL)
       THEN /\ proc' = "aborted"
            /\ UNCHANGED <<calls, last>>
       ELSE /\ calls' = calls \o UnmapCalls(vmas[v].priv)
            /\ Returned("dri_bo_unmap", v, 0, UnmapCalls(vmas[v].priv))
            /\ UNCHANGED proc
    /\ UNCHANGED <<image, gem_size, bo, bo_pc, bo_ret, img_live, image_ext, cr, vmas, ndebug>>

(* lines 451-459; bo->priv is set here, so the assert passes *)
dri_bo_destroy ==
    /\ CanCall
    /\ calls' = calls \o <<Call("destroyImage", bo.priv)>>
    /\ bo' = [bo EXCEPT !.priv = NULL]
    /\ img_live' = FALSE
    /\ Returned("dri_bo_destroy", 0, 0, <<Call("destroyImage", bo.priv)>>)
    /\ UNCHANGED <<image, gem_size, bo_pc, bo_ret, image_ext, cr, ndebug, proc>>

----------------------------------------------------------------------------
(* gralloc0_lock_async, gralloc0_lock_async_ycbcr, gralloc0_unlock_async, gralloc0_free.
   cros_gralloc_driver (lock, unlock, release) is the Buffer Object Manager between
   these entry points and the backend. *)

Lockers == 1 .. MaxLockers

(* the buffers the calls are made on; NoHandle is a null or invalid handle *)
Buffers == {1, 2}
NoHandle == 0

BufferFormats ==
    <<[droid_format |-> "HAL_PIXEL_FORMAT_IMPLEMENTATION_DEFINED", format |-> "DRM_FORMAT_XBGR8888"],
      [droid_format |-> "HAL_PIXEL_FORMAT_YCbCr_420_888", format |-> "DRM_FORMAT_NV12"]>>

(* the NULL cros_gralloc_handle pointer *)
NullHnd == [droid_format |-> NULL, format |-> NULL]

(* cros_gralloc_convert_handle: NULL for a handle that is not a cros_gralloc handle *)
cros_gralloc_convert_handle(h) == IF h = NoHandle THEN NullHnd ELSE BufferFormats[h]

LockCalls == {"gralloc0_lock_async", "gralloc0_lock_async_ycbcr"}

IdleLocker ==
    [call |-> "none", h |-> NoHandle, pc |-> "idle", ret |-> 0, r |-> 0,
     locked |-> FALSE, unlocked |-> FALSE, waited |-> FALSE, live_at_release |-> 0]

LkGoto(t, pc) == lk' = [lk EXCEPT ![t].pc = pc]

LkReturn(t, ret) == lk' = [lk EXCEPT ![t].pc = "done", ![t].ret = ret]

(* a thread is inside a call on buffer h *)
Busy(h) == \E u \in Lockers : lk[u].pc \notin {"idle", "done"} /\ lk[u].h = h

(* A thread makes a call.  Calls on one buffer are not concurrent (the callers
   synchronize per buffer), and a freed buffer's handle is not used again. *)
lk_call(t) ==
    /\ lk[t].pc \in {"idle", "done"}
    /\ n_lock_calls < MaxLockCalls
    /\ n_lock_calls' = n_lock_calls + 1
    /\ \E call \in LockCalls \cup {"gralloc0_unlock_async", "gralloc0_free"},
          h \in Buffers \cup {NoHandle} :
          /\ h # NoHandle => (bufs[h].alive /\ ~Busy(h))
          /\ (h # NoHandle /\ call \in LockCalls) => bufs[h].live < MaxVmas
          /\ lk' = [lk EXCEPT ![t] = [IdleLocker EXCEPT
                       !.call = call, !.h = h,
                       !.pc = CASE call = "gralloc0_lock_async" -> "lock_check"
                                [] call = "gralloc0_lock_async_ycbcr" -> "ycbcr_check"
                                [] call = "gralloc0_unlock_async" -> "drv_unlock"
                                [] call = "gralloc0_free" -> "drv_release"]]
    /\ UNCHANGED <<bufs, drv_mutex>>

(* gralloc0.cc lines 381-390 *)
lock_check(t) ==
    /\ UNCHANGED n_lock_calls
    /\ lk[t].pc = "lock_check"
    /\ LET hnd == cros_gralloc_convert_handle(lk[t].h)
       IN  IF hnd = NullHnd THEN LkReturn(t, -EINVAL)
           ELSE IF hnd.droid_format = "HAL_PIXEL_FORMAT_YCbCr_420_888" THEN LkReturn(t, -EINVAL)
           ELSE LkGoto(t, "drv_lock")
    /\ UNCHANGED <<bufs, drv_mutex>>

(* gralloc0.cc lines 422-433 *)
ycbcr_check(t) ==
    /\ UNCHANGED n_lock_calls
    /\ lk[t].pc = "ycbcr_check"
    /\ LET hnd == cros_gralloc_convert_handle(lk[t].h)
       IN  IF hnd = NullHnd THEN LkReturn(t, -EINVAL)
           ELSE IF /\ hnd.droid_format # "HAL_PIXEL_FORMAT_YCbCr_420_888"
                   /\ hnd.droid_format # "HAL_PIXEL_FORMAT_YV12"
                   /\ hnd.droid_format # "HAL_PIXEL_FORMAT_IMPLEMENTATION_DEFINED"
                THEN LkReturn(t, -EINVAL)
           ELSE LkGoto(t, "drv_lock")
    /\ UNCHANGED <<bufs, drv_mutex>>

(* the manager's mutex: free, or never looked at *)
MutexIgnored == TRUE

MutexFree == drv_mutex = NoThread

(* the manager's error for a request it rejects or a map that failed *)
ManagerErrors == {-EINVAL}

(* gralloc0.cc lines 398-399, 440-441: mod->driver->lock.  The manager takes its mutex
   and calls the backend's map. *)
drv_lock(t) ==
    /\ UNCHANGED n_lock_calls
    /\ lk[t].pc = "drv_lock"
    /\ MutexFree
    /\ drv_mutex' = t
    /\ lk' = [lk EXCEPT ![t].pc = "in_dri_bo_map", ![t].locked = TRUE]
    /\ UNCHANGED bufs

(* part_000 lines 470-482 run under the manager's mutex: mapImage maps or returns NULL;
   the manager records the new VMA, releases the mutex and returns *)
map_return(t) ==
    /\ UNCHANGED n_lock_calls
    /\ lk[t].pc = "in_dri_bo_map"
    /\ \/ /\ bufs' = [bufs EXCEPT ![lk[t].h].live = @ + 1]
          /\ lk' = [lk EXCEPT ![t].pc = "lock_return", ![t].r = 0]
       \/ /\ \E e \in ManagerErrors : lk' = [lk EXCEPT ![t].pc = "lock_return", ![t].r = e]
          /\ UNCHANGED bufs
    /\ drv_mutex' = IF drv_mutex = t THEN NoThread ELSE drv_mutex

YuvFormats == {"DRM_FORMAT_NV12", "DRM_FORMAT_YVU420", "DRM_FORMAT_YVU420_ANDROID"}

(* gralloc0.cc lines 400-401 and 442-470 *)
lock_return(t) ==
    /\ UNCHANGED n_lock_calls
    /\ lk[t].pc = "lock_return"
    /\ IF lk[t].call = "gralloc0_lock_async" THEN LkReturn(t, lk[t].r)
       ELSE IF lk[t].r # 0 THEN LkReturn(t, lk[t].r)
       ELSE IF cros_gralloc_convert_handle(lk[t].h).format \in YuvFormats THEN LkReturn(t, 0)
       ELSE LkGoto(t, "drv_unlock")
    /\ UNCHANGED <<bufs, drv_mutex>>

(* gralloc0.cc line 274 (gralloc0_unlock, reached from line 465) and line 408:
   mod->driver->unlock.  The manager rejects an invalid handle and a buffer without a
   live VMA; otherwise it takes its mutex and calls the backend's unmap. *)
drv_unlock(t) ==
    /\ UNCHANGED n_lock_calls
    /\ lk[t].pc = "drv_unlock"
    /\ IF lk[t].h = NoHandle \/ bufs[lk[t].h].live = 0
       THEN /\ \E e \in ManagerErrors :
                  lk' = [lk EXCEPT ![t].pc = "unlock_return", ![t].r = e, ![t].unlocked = TRUE]
            /\ UNCHANGED drv_mutex
       ELSE /\ MutexFree
            /\ drv_mutex' = t
            /\ lk' = [lk EXCEPT ![t].pc = "in_dri_bo_unmap", ![t].unlocked = TRUE]
    /\ UNCHANGED bufs

(* part_000 lines 484-501 run under the manager's mutex; the manager drops the VMA,
   releases the mutex and returns *)
unmap_return(t) ==
    /\ UNCHANGED n_lock_calls
    /\ lk[t].pc = "in_dri_bo_unmap"
    /\ bufs' = [bufs EXCEPT ![lk[t].h].live = @ - 1]
    /\ lk' = [lk EXCEPT ![t].pc = "unlock_return", ![t].r = 0]
    /\ drv_mutex' = IF drv_mutex = t THEN NoThread ELSE drv_mutex

(* gralloc0.cc line 408: gralloc0_unlock_async returns what unlock returned; lines
   275-282 and 465-466: gralloc0_unlock waits for the fence unless unlock failed, and
   gralloc0_lock_async_ycbcr then returns -EINVAL *)
unlock_return(t) ==
    /\ UNCHANGED n_lock_calls
    /\ lk[t].pc = "unlock_return"
    /\ IF lk[t].call = "gralloc0_unlock_async" THEN LkReturn(t, lk[t].r)
       ELSE lk' = [lk EXCEPT ![t].pc = "done", ![t].ret = -EINVAL,
                             ![t].waited = (lk[t].r = 0)]
    /\ UNCHANGED <<bufs, drv_mutex>>

(* the manager's release of a buffer with a live VMA *)
ReleaseAnyway(h) == FALSE

ReleaseRejects(h) == bufs[h].live > 0

(* gralloc0.cc lines 137-141: mod->driver->release.  The manager rejects an invalid
   handle and a buffer with a live VMA; otherwise it destroys the buffer object
   (part_000 lines 451-459). *)
drv_release(t) ==
    /\ UNCHANGED n_lock_calls
    /\ lk[t].pc = "drv_release"
    /\ IF lk[t].h = NoHandle
       THEN /\ \E e \in ManagerErrors : LkReturn(t, e)
            /\ UNCHANGED bufs
       ELSE IF ReleaseRejects(lk[t].h)
       THEN /\ \E e \in ManagerErrors :
                  lk' = [lk EXCEPT ![t].pc = "done", ![t].ret = e,
                                   ![t].live_at_release = bufs[lk[t].h].live]
            /\ UNCHANGED bufs
       ELSE /\ bufs' = [bufs EXCEPT ![lk[t].h].alive = FALSE]
            /\ lk' = [lk EXCEPT ![t].pc = "done", ![t].ret = 0,
                                ![t].live_at_release = bufs[lk[t].h].live]
    /\ UNCHANGED drv_mutex

NewBuffer == [alive |-> TRUE, live |-> 0]

----------------
(* Initial states *)

PlaneSet == [stride : Strides, offset : Offsets, handle : Handles]

PlanesOf(n) ==
    {f \in [PlaneIdx -> PlaneSet] :
        \A i \in PlaneIdx : i >= n => f[i] = [stride |-> 4, offset |-> 0, handle |-> 1]}

Images(nplanes, halves, oks) ==
    UNION {{[num_planes |-> n, planes |-> p, modifier_upper |-> u, modifier_lower |-> l,
             upper_ok |-> ok[1], lower_ok |-> ok[2]] :
               p \in PlanesOf(n), u \in halves, l \in halves, ok \in oks}
           : n \in nplanes}

BoInit ==
    /\ gem_size \in [Handles -> DmaBufSizes]
    /\ bo = NewBo
    /\ bo_pc = "new"
    /\ bo_ret = 0
    /\ img_live = FALSE
    /\ image_ext = OptionalEntryPoints
    /\ calls = <<>>
    /\ cr = NoCreate

DriInit ==
    /\ dri = NewDri
    /\ dri_ret = 0
    /\ dri_held = {}
    /\ dri_released = <<>>
    /\ screen_exts = <<>>

(* a backend that dri_init has brought up *)
DriReady ==
    /\ dri = [fd |-> 3, driver_handle |-> "driver",
              extensions |-> <<[name |-> DRI_CORE, version |-> 2],
                               [name |-> DRI_DRI2, version |-> 4]>>,
              core_extension |-> 1, dri2_extension |-> 2,
              device |-> "screen", context |-> "context",
              image_extension |-> 1, flush_extension |-> 2]
    /\ dri_pc = "done"
    /\ dri_ret = 0
    /\ dri_held = {"fd", "module", "screen", "context"}
    /\ dri_released = <<>>
    /\ screen_exts = <<[name |-> DRI_IMAGE, version |-> 12],
                       [name |-> DRI2_FLUSH, version |-> 4]>>

ModInit ==
    /\ gmod = NewModule
    /\ mutex = NoThread
    /\ n_construct = 0
    /\ n_device_open = 0
    /\ n_init_failed = 0
    /\ th = [t \in Threads |-> IdleThread]

AllocIdle ==
    /\ supported = {}
    /\ al = [NewAlloc({}) EXCEPT !.pc = "idle"]

BoIdle ==
    /\ image \in Images({0}, {0}, {<<FALSE, FALSE>>})
    /\ gem_size = [h \in Handles |-> 4]
    /\ bo = NewBo
    /\ bo_pc = "idle"
    /\ bo_ret = 0
    /\ img_live = FALSE
    /\ image_ext = OptionalEntryPoints
    /\ calls = <<>>
    /\ cr = NoCreate

LockIdle ==
    /\ lk = [t \in Lockers |-> IdleLocker]
    /\ bufs = [h \in Buffers |-> NewBuffer]
    /\ drv_mutex = NoThread
    /\ n_lock_calls = 0

MapIdle ==
    /\ vmas = [v \in Vmas |-> NewVma]
    /\ ndebug = FALSE
    /\ proc = "running"
    /\ last = NoCall

InitImport ==
    /\ image \in Images(0 .. DRV_MAX_PLANES, {-1}, {<<TRUE, TRUE>>})
    /\ BoInit
    /\ DriReady
    /\ ModInit
    /\ AllocIdle
    /\ MapIdle
    /\ LockIdle

NextImport == dri_bo_import

SpecImport == InitImport /\ [][NextImport]_vars

InitCreate ==
    /\ image \in Images({1}, {-1}, {<<TRUE, TRUE>>})
    /\ gem_size \in [Handles -> DmaBufSizes]
    /\ bo = NewBo
    /\ bo_pc = "new"
    /\ bo_ret = 0
    /\ img_live = FALSE
    /\ image_ext \in SUBSET OptionalEntryPoints
    /\ calls = <<>>
    /\ cr = NoCreate
    /\ DriReady
    /\ ModInit
    /\ AllocIdle
    /\ MapIdle
    /\ LockIdle

NextCreate ==
    \/ dri_bo_create
    \/ dri_bo_create_with_modifiers
    \/ dri_bo_import

SpecCreate == InitCreate /\ [][NextCreate]_vars

InitRelease ==
    /\ image \in Images(0 .. 2, {-1}, {<<TRUE, TRUE>>})
    /\ gem_size = [h \in Handles |-> 6]
    /\ bo = NewBo
    /\ bo_pc = "new"
    /\ bo_ret = 0
    /\ img_live = FALSE
    /\ image_ext = OptionalEntryPoints
    /\ calls = <<>>
    /\ cr = NoCreate
    /\ DriReady
    /\ ModInit
    /\ AllocIdle
    /\ MapIdle
    /\ LockIdle

NextRelease == import_call

SpecRelease == InitRelease /\ [][NextRelease]_vars

(* The modifier queries answer with any pair of 32-bit signed values, or fail. *)
INT32_MIN == -2147483647 - 1
ModifierHalves == {INT32_MIN, -1, 0, 1, 16777215, 2147483647}

InitModifier ==
    /\ image \in Images({1}, ModifierHalves, BOOLEAN \X BOOLEAN)
    /\ BoInit
    /\ DriReady
    /\ ModInit
    /\ AllocIdle
    /\ MapIdle
    /\ LockIdle

InitDri ==
    /\ DriInit
    /\ dri_pc = "open"
    /\ BoIdle
    /\ ModInit
    /\ AllocIdle
    /\ MapIdle
    /\ LockIdle

NextDri ==
    \/ dri_init_open
    \/ dri_init_dlopen
    \/ dri_init_dlsym
    \/ dri_init_get_extensions
    \/ dri_init_lookup_core
    \/ dri_init_lookup_dri2
    \/ dri_init_create_screen
    \/ dri_init_create_context
    \/ dri_init_lookup_image
    \/ dri_init_lookup_flush

SpecDri == InitDri /\ [][NextDri]_vars

(* the module after a gralloc0_open of the gpu0 device has returned 0: lines 157-171, 179 *)
OpenedModule == [initialized |-> TRUE, driver |-> 1, alloc |-> "alloc", fb |-> NULL]

InitOpen ==
    /\ \/ ModInit
       \/ /\ gmod = OpenedModule
          /\ mutex = NoThread
          /\ n_construct = 1
          /\ n_device_open = 1
          /\ n_init_failed = 0
          /\ th = [t \in Threads |-> IdleThread]
    /\ AllocIdle
    /\ MapIdle
    /\ LockIdle
    /\ BoIdle
    /\ DriInit
    /\ dri_pc = "idle"

NextOpen ==
    \/ \E t \in Threads : call_entry(t) /\ UNCHANGED <<bo_vars, dri_vars, alloc_vars, map_vars, lock_vars>>
    \/ \E t \in Threads : init_lock(t) /\ UNCHANGED <<bo_vars, dri_vars, alloc_vars, map_vars, lock_vars>>
    \/ \E t \in Threads : init_check(t) /\ UNCHANGED <<bo_vars, dri_vars, alloc_vars, map_vars, lock_vars>>
    \/ \E t \in Threads : init_driver(t) /\ UNCHANGED <<bo_vars, dri_vars, alloc_vars, map_vars, lock_vars>>
    \/ \E t \in Threads : init_alloc(t) /\ UNCHANGED <<bo_vars, dri_vars, alloc_vars, map_vars, lock_vars>>
    \/ \E t \in Threads : init_fb(t) /\ UNCHANGED <<bo_vars, dri_vars, alloc_vars, map_vars, lock_vars>>
    \/ \E t \in Threads : init_flag(t) /\ UNCHANGED <<bo_vars, dri_vars, alloc_vars, map_vars, lock_vars>>
    \/ \E t \in Threads : open_check(t) /\ UNCHANGED <<bo_vars, dri_vars, alloc_vars, map_vars, lock_vars>>
    \/ \E t \in Threads : open_after_init(t) /\ UNCHANGED <<bo_vars, dri_vars, alloc_vars, map_vars, lock_vars>>
    \/ \E t \in Threads : fb0_check(t) /\ UNCHANGED <<bo_vars, dri_vars, alloc_vars, map_vars, lock_vars>>
    \/ \E t \in Threads : fb0_after_init(t) /\ UNCHANGED <<bo_vars, dri_vars, alloc_vars, map_vars, lock_vars>>
    \/ \E t \in Threads : fb0_fb_check(t) /\ UNCHANGED <<bo_vars, dri_vars, alloc_vars, map_vars, lock_vars>>
    \/ \E t \in Threads : fb0_lock(t) /\ UNCHANGED <<bo_vars, dri_vars, alloc_vars, map_vars, lock_vars>>
    \/ \E t \in Threads : fb0_fb_init(t) /\ UNCHANGED <<bo_vars, dri_vars, alloc_vars, map_vars, lock_vars>>
    \/ \E t \in Threads : fb0_return(t) /\ UNCHANGED <<bo_vars, dri_vars, alloc_vars, map_vars, lock_vars>>
    \/ \E t \in Threads : reg_check(t) /\ UNCHANGED <<bo_vars, dri_vars, alloc_vars, map_vars, lock_vars>>
    \/ \E t \in Threads : reg_after_init(t) /\ UNCHANGED <<bo_vars, dri_vars, alloc_vars, map_vars, lock_vars>>
    \/ \E t \in Threads : reg_retain(t) /\ UNCHANGED <<bo_vars, dri_vars, alloc_vars, map_vars, lock_vars>>

SpecOpen == InitOpen /\ [][NextOpen]_vars

(* A created buffer object whose backend entry points are called in any order, in a
   build with or without NDEBUG *)
InitMap ==
    /\ image \in Images({0}, {0}, {<<FALSE, FALSE>>})
    /\ gem_size = [h \in Handles |-> 4]
    /\ bo = [NewBo EXCEPT !.priv = "image"]
    /\ bo_pc = "created"
    /\ bo_ret = 0
    /\ img_live = TRUE
    /\ image_ext = OptionalEntryPoints
    /\ calls = <<>>
    /\ cr = NoCreate
    /\ vmas = [v \in Vmas |-> NewVma]
    /\ ndebug \in BOOLEAN
    /\ proc = "running"
    /\ last = NoCall
    /\ DriReady
    /\ ModInit
    /\ AllocIdle
    /\ LockIdle

NextMap ==
    \/ \E v \in Vmas : dri_bo_map(v) /\ UNCHANGED <<dri_vars, mod_vars, alloc_vars, lock_vars>>
    \/ \E v \in Vmas : dri_bo_unmap(v) /\ UNCHANGED <<dri_vars, mod_vars, alloc_vars, lock_vars>>
    \/ dri_bo_destroy /\ UNCHANGED <<vmas, dri_vars, mod_vars, alloc_vars, lock_vars>>

SpecMap == InitMap /\ [][NextMap]_vars

(* Threads lock, unlock and free the buffers of an initialized module *)
InitLock ==
    /\ LockIdle
    /\ BoIdle
    /\ DriReady
    /\ ModInit
    /\ AllocIdle
    /\ MapIdle

OtherVars == <<bo_vars, dri_vars, mod_vars, alloc_vars, map_vars>>

NextLock ==
    \/ \E t \in Lockers : lk_call(t) /\ UNCHANGED OtherVars
    \/ \E t \in Lockers : lock_check(t) /\ UNCHANGED OtherVars
    \/ \E t \in Lockers : ycbcr_check(t) /\ UNCHANGED OtherVars
    \/ \E t \in Lockers : drv_lock(t) /\ UNCHANGED OtherVars
    \/ \E t \in Lockers : map_return(t) /\ UNCHANGED OtherVars
    \/ \E t \in Lockers : lock_return(t) /\ UNCHANGED OtherVars
    \/ \E t \in Lockers : drv_unlock(t) /\ UNCHANGED OtherVars
    \/ \E t \in Lockers : unmap_return(t) /\ UNCHANGED OtherVars
    \/ \E t \in Lockers : unlock_return(t) /\ UNCHANGED OtherVars
    \/ \E t \in Lockers : drv_release(t) /\ UNCHANGED OtherVars

SpecLock == InitLock /\ [][NextLock]_vars

(* gralloc0_alloc is called on an initialized module; the driver supports any set of
   the two use-flag sets the call can ask about *)
InitAlloc ==
    /\ \E usage \in SUBSET AllocUsageBits :
          /\ al = NewAlloc(usage)
          /\ supported \in SUBSET {gralloc0_convert_usage(usage),
                                   gralloc0_convert_usage(usage) \ BO_USE_SCANOUT}
    /\ ModInit
    /\ BoIdle
    /\ DriReady
    /\ MapIdle
    /\ LockIdle

NextAlloc == gralloc0_alloc

SpecAlloc == InitAlloc /\ [][NextAlloc]_vars

NextModifier == dri_bo_import

SpecModifier == InitModifier /\ [][NextModifier]_vars

----------------------------------------------------------------------------
(* Properties of import reconciliation *)

Min(S) == CHOOSE x \in S : \A y \in S : x <= y

RECURSIVE SumTo(_, _)
SumTo(f, n) == IF n <= 0 THEN 0 ELSE f[n - 1] + SumTo(f, n - 1)

(* import_into_minigbm was entered: bo->priv holds the image *)
ImportRan == bo_pc = "dri_bo_import" /\ bo.priv # NULL

(* import_into_minigbm returned 0 *)
ImportSucceeded == ImportRan /\ bo_ret = 0

ImagePlanes == 0 .. (image.num_planes - 1)

(* offsets of the planes that share plane i's kernel handle and lie strictly above it *)
GreaterOffsets(i) ==
    {image.planes[j].offset : j \in {k \in ImagePlanes :
        /\ image.planes[k].handle = image.planes[i].handle
        /\ image.planes[k].offset > image.planes[i].offset}}

DmabufSizeOf(i) == gem_size[image.planes[i].handle]

Overlap(i, j) ==
    LET lo == IF bo.offsets[i] > bo.offsets[j] THEN bo.offsets[i] ELSE bo.offsets[j]
        ei == bo.offsets[i] + bo.sizes[i]
        ej == bo.offsets[j] + bo.sizes[j]
    IN  lo < (IF ei < ej THEN ei ELSE ej)

(* C1 as stated: after a successful import the size of every plane i is the smallest
   offset strictly above offset[i] among the planes sharing its handle, or the dma-buf
   size when there is no such plane, minus offset[i]. *)
C1_SizeIsGapToNextOffset ==
    ImportSucceeded =>
        \A i \in ImagePlanes :
            bo.sizes[i] =
                ((IF GreaterOffsets(i) = {} THEN DmabufSizeOf(i) ELSE Min(GreaterOffsets(i)))
                 - image.planes[i].offset) % U32_KIB

(* C1 amended: after a successful import the size of every plane i is the smallest of
   the dma-buf size and the offsets strictly above offset[i] among the planes sharing
   its handle, minus offset[i] (as an unsigned 32-bit value); planes at 0 and 4096 on
   one handle with a dma-buf of 6144 bytes get 4096 and 2048. *)
C1_SizeIsGapClampedToDmabuf ==
    ImportSucceeded =>
        /\ \A i \in ImagePlanes :
              bo.sizes[i] =
                  (Min(GreaterOffsets(i) \cup {DmabufSizeOf(i)}) - image.planes[i].offset)
                      % U32_KIB
        /\ (/\ image.num_planes = 2
            /\ image.planes[0].handle = image.planes[1].handle
            /\ image.planes[0].offset = 0 /\ image.planes[1].offset = 4
            /\ DmabufSizeOf(0) = 6)
           => (bo.sizes[0] = 4 /\ bo.sizes[1] = 2)

C1_Witness ==
    /\ ImportSucceeded
    /\ image.num_planes = 2
    /\ image.planes[0].handle = image.planes[1].handle
    /\ image.planes[0].offset = 0 /\ image.planes[1].offset = 4
    /\ DmabufSizeOf(0) = 6
    /\ bo.sizes[0] = 4 /\ bo.sizes[1] = 2

(* two planes on one kernel handle, the earlier one at the greater offset *)
OutOfOrder ==
    \E i, j \in ImagePlanes :
        /\ i < j
        /\ image.planes[i].handle = image.planes[j].handle
        /\ image.planes[i].offset > image.planes[j].offset

(* C22 as stated: when the driver reports a plane at a greater offset than a later plane
   of the same kernel handle, import reconciliation returns an error. *)
C22_OutOfOrderPlanesAreAnError ==
    (ImportRan /\ OutOfOrder) => bo_ret # 0

(* C22 amended: plane order does not matter.  With a plane at a greater offset than a
   later plane of the same handle the import fails only with the errno of a failed query,
   and when it succeeds every plane is sized by the gap to the nearest greater offset on
   its handle, or to the end of the dma-buf. *)
C22_OutOfOrderPlanesSizedByGap ==
    (ImportRan /\ OutOfOrder) =>
        /\ bo_ret # 0 => -bo_ret \in Errnos \cup {ENOSYS}
        /\ bo_ret = 0 =>
              \A i \in ImagePlanes :
                 \E end \in GreaterOffsets(i) \cup {DmabufSizeOf(i)} :
                    /\ bo.sizes[i] = (end - image.planes[i].offset) % U32_KIB
                    /\ \A other \in GreaterOffsets(i) \cup {DmabufSizeOf(i)} : end <= other

C22_Witness ==
    /\ ImportSucceeded
    /\ image.num_planes = 2
    /\ image.planes[0].handle = image.planes[1].handle
    /\ image.planes[0].offset = 4 /\ image.planes[1].offset = 0
    /\ DmabufSizeOf(0) = 6
    /\ bo.sizes[0] = 2 /\ bo.sizes[1] = 4

C3_TotalSizeIsSumOfPlaneSizes ==
    ImportSucceeded => bo.total_size = SumTo(bo.sizes, image.num_planes)

C3_Witness ==
    /\ ImportSucceeded
    /\ image.num_planes = 3
    /\ \A i \in ImagePlanes : bo.sizes[i] > 0
    /\ bo.total_size = bo.sizes[0] + bo.sizes[1] + bo.sizes[2]

(* the 32 bits held in two limbs, read as a two's complement number *)
AsInt32(hi, lo) == IF hi >= LIMB \div 2 THEN (hi - LIMB) * LIMB + lo ELSE hi * LIMB + lo

(* C4: after import_into_minigbm the upper 32 bits of the format modifier are the upper
   half reported by the driver and the lower 32 bits are the lower half, for any signed
   values, when both queries succeed; otherwise the modifier is DRM_FORMAT_MOD_INVALID. *)
C4_ModifierCombinesHalves ==
    ImportRan =>
        IF image.upper_ok /\ image.lower_ok
        THEN /\ \A k \in 1 .. 4 : bo.format_modifier[k] \in 0 .. (LIMB - 1)
             /\ AsInt32(bo.format_modifier[1], bo.format_modifier[2]) = image.modifier_upper
             /\ AsInt32(bo.format_modifier[3], bo.format_modifier[4]) = image.modifier_lower
        ELSE bo.format_modifier = DRM_FORMAT_MOD_INVALID

C4_Witness ==
    /\ ImportRan
    /\ image.upper_ok /\ image.lower_ok
    /\ image.modifier_upper = 1 /\ image.modifier_lower = -1
    /\ bo.format_modifier = <<0, 1, LIMB - 1, LIMB - 1>>

----------------------------------------------------------------------------
(* Properties of dri_init *)

ReleaseOrder == <<"context", "screen", "module", "fd">>

InReleased(r) == r \in Range(dri_released)

(* C5: when dri_init returns after a failed step, every resource acquired in the call
   has been released, once each and in the order context, screen, driver module,
   device fd, and the result is -ENODEV; when it returns 0 all four are held and the
   four extensions are resolved, so no partially ready state is returned. *)
C5_FailedInitUnwindsInOrder ==
    dri_pc = "done" =>
        \/ /\ dri_ret = -ENODEV
           /\ dri_held = {}
           /\ dri_released = SelectSeq(ReleaseOrder, InReleased)
        \/ /\ dri_ret = 0
           /\ dri_held = {"fd", "module", "screen", "context"}
           /\ dri_released = <<>>
           /\ dri.core_extension # NoExt /\ dri.dri2_extension # NoExt
           /\ dri.image_extension # NoExt /\ dri.flush_extension # NoExt

C5_Witness ==
    /\ dri_pc = "done"
    /\ dri_ret = -ENODEV
    /\ dri.context = "context"
    /\ dri.image_extension # NoExt
    /\ dri_held = {}
    /\ dri_released = ReleaseOrder

----------------------------------------------------------------------------
(* Properties of the module initialization *)

AllReturned == \A t \in Threads : th[t].pc = "done"

(* every thread made a first-time call with a valid device name: it entered while the
   module was uninitialized and no bring-up had begun *)
ConcurrentFirstCalls ==
    \A t \in Threads : th[t].first_time /\ th[t].name # "other"

(* the call of t met a working initialization: gralloc0_init returned 0 to it, or it
   found the module initialized and went on without calling gralloc0_init *)
Succeeded(t) == th[t].init_ret = 0

(* C6: concurrent first-time calls on an uninitialized module execute exactly one driver
   initialization in total, one driver construction and one device open, whether it
   succeeds or fails. *)
C6_ExactlyOneInitialization ==
    (AllReturned /\ ConcurrentFirstCalls) => (n_construct = 1 /\ n_device_open = 1)

(* C7: concurrent first-time calls on an uninitialized module all observe the same
   outcome: all succeed or all fail. *)
C7_SameOutcomeForAll ==
    (AllReturned /\ ConcurrentFirstCalls) =>
        \/ \A t \in Threads : Succeeded(t)
        \/ \A t \in Threads : ~Succeeded(t)

(* C8: a call entered after gralloc0_init has returned a bring-up failure never runs the
   driver bring-up again. *)
C8_NoBringUpAfterFailure ==
    \A t \in Threads : ~(th[t].late /\ th[t].brought_up)

(* C25: under any interleaving of gralloc0_open_fb0 calls with each other and with
   gralloc0_open and gralloc0_register_buffer, the framebuffer of the module is initialized
   at most once: mod->fb is never stored again once it is set, and a framebuffer handed to
   a caller of gralloc0_open_fb0 is still the framebuffer of the module. *)
C25_FramebufferInitializedAtMostOnce ==
    /\ gmod.fb \in {NULL, "fb"}
    /\ \A t \in Threads :
          (th[t].pc = "done" /\ th[t].call = "gralloc0_open_fb0" /\ th[t].ret = 0)
             => th[t].dev = gmod.fb

(* C26: in every state the initialized flag is set only if the driver and the alloc device
   are set, no thread to which gralloc0_init returned an error set the flag, and every
   gralloc0_open of the gpu0 device that returned 0 handed out the alloc device, never
   NULL. *)
C26_InitializedImpliesAllocHandedOut ==
    /\ gmod.initialized => (gmod.driver # 0 /\ gmod.alloc # NULL)
    /\ \A t \in Threads :
          (th[t].pc = "done" /\ th[t].call = "gralloc0_open" /\ th[t].ret = 0)
             => th[t].dev # NULL

----------------------------------------------------------------------------
(* Properties of gralloc0_alloc *)

FullFlags == gralloc0_convert_usage(al.usage)

ScanoutRequested == And(al.usage, GRALLOC_USAGE_HW_COMPOSER) # {}

(* the case of the scanout-drop retry *)
ScanoutDropCase ==
    /\ al.pc = "done"
    /\ FullFlags \notin supported
    /\ ScanoutRequested
    /\ (FullFlags \ BO_USE_SCANOUT) \in supported

(* C9 as stated: in the scanout-drop case the allocation succeeds and the use-flags
   handed to allocate have no scanout bit; when the first check succeeds the use-flags
   are handed over unchanged. *)
C9_ScanoutDropSucceeds ==
    /\ ScanoutDropCase =>
          /\ al.ret = 0
          /\ al.allocated = <<FullFlags \ BO_USE_SCANOUT>>
    /\ (al.pc = "done" /\ FullFlags \in supported) => al.allocated = <<FullFlags>>

(* C9 amended: in the scanout-drop case the call passes the support check on the retry
   and calls allocate once with use-flags that have no scanout bit, returning what
   allocate returns: it succeeds, writing handle and stride, whenever the driver's
   allocate succeeds; when the first check succeeds the use-flags are handed over
   unchanged. *)
C9_ScanoutDropReachesAllocate ==
    /\ ScanoutDropCase =>
          /\ al.checks = <<FullFlags, FullFlags \ BO_USE_SCANOUT>>
          /\ al.allocated = <<FullFlags \ BO_USE_SCANOUT>>
          /\ \A k \in 1 .. Len(al.allocated) : al.allocated[k] \cap BO_USE_SCANOUT = {}
          /\ al.ret = al.alloc_ret
          /\ al.alloc_ret = 0 => (al.ret = 0 /\ al.handle = "handle" /\ al.stride = "pixel_stride")
    /\ (al.pc = "done" /\ FullFlags \in supported) =>
          /\ al.checks = <<FullFlags>>
          /\ al.allocated = <<FullFlags>>

C9_Witness ==
    /\ ScanoutDropCase
    /\ al.usage = GRALLOC_USAGE_HW_COMPOSER \cup GRALLOC_USAGE_HW_RENDER
    /\ al.allocated = <<BO_USE_TEXTURE \cup BO_USE_RENDERING>>
    /\ al.ret = 0
    /\ al.handle = "handle"

(* the request is unsupported with the full use-flags and, when scanout was requested,
   also with scanout dropped *)
UnsupportedCase ==
    /\ al.pc = "done"
    /\ FullFlags \notin supported
    /\ ScanoutRequested => (FullFlags \ BO_USE_SCANOUT) \notin supported

(* C10: an unsupported request returns -EINVAL without calling allocate and without
   writing the handle and stride outputs; when scanout was not requested the support
   check is made exactly once. *)
C10_UnsupportedReturnsEinval ==
    /\ UnsupportedCase =>
          /\ al.ret = -EINVAL
          /\ al.allocated = <<>>
          /\ al.handle = "unset"
          /\ al.stride = "unset"
    /\ (al.pc = "done" /\ ~ScanoutRequested) => al.checks = <<FullFlags>>

C10_Witness ==
    /\ UnsupportedCase
    /\ ScanoutRequested
    /\ Len(al.checks) = 2
    /\ al.ret = -EINVAL
    /\ al.allocated = <<>>

(* C21: the use-flags gralloc0_alloc derives from a usage bitmask contain the use-flags
   gralloc0_convert_usage gives for every bitmask whose bits are all set in it: requesting
   more usage drops no use-flag. *)
C21_ConvertUsageMonotonic ==
    al.pc = "done" =>
       \A u1 \in SUBSET al.usage : gralloc0_convert_usage(u1) \subseteq al.checks[1]

----------------------------------------------------------------------------
(* Properties of the order of dri_init and of lookup_extension *)

AllExtensionsResolved ==
    /\ dri.core_extension # NoExt /\ dri.dri2_extension # NoExt
    /\ dri.image_extension # NoExt /\ dri.flush_extension # NoExt

(* C17 as stated: all four required extensions are resolved before the screen and the
   context are created, and success is reached only with everything in place. *)
C17_ExtensionsBeforeScreen ==
    /\ (dri.device # NULL \/ dri.context # NULL) => AllExtensionsResolved
    /\ (dri_pc = "done" /\ dri_ret = 0) =>
          (AllExtensionsResolved /\ dri.device # NULL /\ dri.context # NULL)

(* C17 amended: the core and DRI2 extensions are resolved, after the device fd is open
   and the driver module loaded, before the screen is created; the context is created
   after the screen; the image and flush extensions are resolved only after the context
   exists, image before flush; success is reached only with all of it in place. *)
C17_ScreenBetweenLookups ==
    /\ dri.core_extension # NoExt => (dri.fd >= 0 /\ dri_pc \notin {"open", "dlopen", "dlsym"})
    /\ dri.dri2_extension # NoExt => dri.core_extension # NoExt
    /\ dri.device # NULL => (dri.core_extension # NoExt /\ dri.dri2_extension # NoExt)
    /\ dri.context # NULL => dri.device # NULL
    /\ dri.image_extension # NoExt => dri.context # NULL
    /\ dri.flush_extension # NoExt => dri.image_extension # NoExt
    /\ "screen" \in dri_held => {"fd", "module"} \subseteq dri_held
    /\ "context" \in dri_held => "screen" \in dri_held
    /\ (dri_pc = "done" /\ dri_ret = 0) =>
          /\ AllExtensionsResolved
          /\ dri_held = {"fd", "module", "screen", "context"}

C17_Witness ==
    /\ dri_pc = "lookup_image"
    /\ dri.device # NULL /\ dri.context # NULL
    /\ dri.core_extension # NoExt /\ dri.dri2_extension # NoExt
    /\ dri.image_extension = NoExt /\ dri.flush_extension = NoExt

(* the entries of a list that have the name and at least the minimum version *)
Qualifying(extensions, name, min_version) ==
    {k \in 1 .. Len(extensions) :
        extensions[k].name = name /\ extensions[k].version >= min_version}

FirstQualifying(extensions, name, min_version) ==
    IF Qualifying(extensions, name, min_version) = {} THEN NoExt
    ELSE CHOOSE k \in Qualifying(extensions, name, min_version) :
            \A j \in Qualifying(extensions, name, min_version) : k <= j

(* an extension pointer is unset, or the first qualifying entry of its list *)
ResolvedAs(ptr, extensions, name, min_version) ==
    /\ ptr # NoExt => ptr = FirstQualifying(extensions, name, min_version)
    /\ (dri_pc = "done" /\ FirstQualifying(extensions, name, min_version) = NoExt) =>
          (ptr = NoExt /\ dri_ret = -ENODEV)

(* C18: dri_init returns 0 only with each of the four extensions resolved to the first
   entry of its list that has the name and at least the minimum version (core 2, DRI2 4,
   image 12, flush 4); a list without such an entry leaves the pointer unset and makes
   dri_init return -ENODEV. *)
C18_ExtensionsByNameAndVersion ==
    /\ ResolvedAs(dri.core_extension, dri.extensions, DRI_CORE, 2)
    /\ ResolvedAs(dri.dri2_extension, dri.extensions, DRI_DRI2, 4)
    /\ ResolvedAs(dri.image_extension, screen_exts, DRI_IMAGE, 12)
    /\ ResolvedAs(dri.flush_extension, screen_exts, DRI2_FLUSH, 4)
    /\ (dri_pc = "done" /\ dri_ret = 0) => AllExtensionsResolved

C18_Witness ==
    /\ dri_pc = "done"
    /\ dri_ret = -ENODEV
    /\ Len(dri.extensions) = 2
    /\ dri.extensions[1] = [name |-> DRI_CORE, version |-> 1]
    /\ dri.core_extension = 2
    /\ dri.dri2_extension = NoExt

----------------------------------------------------------------------------
(* Properties of dri_bo_map and dri_bo_unmap *)

CallsOf(fn) == {k \in 1 .. Len(calls) : calls[k].fn = fn}

UnmapReturned == last.op = "dri_bo_unmap"

(* C11: a dri_bo_unmap call on a mapped VMA issues unmapImage and then a flush of the
   rendering context with the context-flush flag, and returns 0; unmapImage is never
   called without the flush following it. *)
C11_UnmapIsFollowedByFlush ==
    /\ (UnmapReturned /\ last.had_priv) =>
          /\ last.ret = 0
          /\ last.made = <<Call("unmapImage", vmas[last.vma].priv),
                           Call("flush_with_flags", "__DRI2_FLUSH_CONTEXT")>>
    /\ \A k \in CallsOf("unmapImage") :
          /\ k < Len(calls)
          /\ calls[k + 1] = Call("flush_with_flags", "__DRI2_FLUSH_CONTEXT")

C11_Witness ==
    /\ UnmapReturned
    /\ last.had_priv
    /\ vmas[last.vma].addr # NULL
    /\ Len(calls) >= 3
    /\ calls[Len(calls) - 1].fn = "unmapImage"

(* C15: dri_bo_unmap on a VMA whose mapping token is unset is an error: it never calls
   unmapImage or flush for it and does not return success. *)
C15_UnmapWithoutMapIsAnError ==
    /\ \A k \in CallsOf("unmapImage") : calls[k].arg # NULL
    /\ (UnmapReturned /\ ~last.had_priv) => (last.ret # 0 /\ last.made = <<>>)

----------------------------------------------------------------------------
(* Properties of the gralloc0 lock, unlock and free calls *)

InBackend == {t \in Lockers : lk[t].pc \in {"in_dri_bo_map", "in_dri_bo_unmap"}}

(* C12: no two executions of dri_bo_map and dri_bo_unmap overlap: each runs with the
   one mutex held by the thread that executes it. *)
C12_MapUnmapSerialized ==
    /\ Cardinality(InBackend) <= 1
    /\ \A t \in InBackend : drv_mutex = t

C12_Witness ==
    \E t, u \in Lockers :
        /\ lk[t].pc = "in_dri_bo_unmap"
        /\ lk[u].pc = "drv_lock"
        /\ lk[u].h # lk[t].h

(* the lock request of t is a protocol violation *)
ProtocolViolation(t) ==
    /\ lk[t].call \in LockCalls
    /\ \/ lk[t].h = NoHandle
       \/ /\ lk[t].call = "gralloc0_lock_async"
          /\ BufferFormats[lk[t].h].droid_format = "HAL_PIXEL_FORMAT_YCbCr_420_888"
       \/ /\ lk[t].call = "gralloc0_lock_async_ycbcr"
          /\ BufferFormats[lk[t].h].format \notin YuvFormats

(* C14: a lock request that is a protocol violation returns -EINVAL without the
   driver's lock being invoked and without an unlock or a fence wait on the buffer. *)
C14_ViolationRejectedUntouched ==
    \A t \in Lockers :
        ProtocolViolation(t) =>
            /\ ~lk[t].locked
            /\ ~lk[t].unlocked
            /\ ~lk[t].waited
            /\ lk[t].pc = "done" => lk[t].ret = -EINVAL

(* C16: a free of a buffer object that has a live VMA is rejected, and no buffer object
   is destroyed while it has a live VMA. *)
C16_NoDestroyWhileMapped ==
    /\ \A h \in Buffers : ~bufs[h].alive => bufs[h].live = 0
    /\ \A t \in Lockers :
          (lk[t].pc = "done" /\ lk[t].call = "gralloc0_free" /\ lk[t].live_at_release > 0) =>
              lk[t].ret # 0

C16_Witness ==
    \E t \in Lockers :
        /\ lk[t].pc = "done"
        /\ lk[t].call = "gralloc0_free"
        /\ lk[t].live_at_release > 0
        /\ lk[t].ret = -EINVAL
        /\ bufs[lk[t].h].live > 0

----------------------------------------------------------------------------
(* Properties of dri_bo_create_common *)

CreateCalled == cr.op = "dri_bo_create_common"

ImportCalled == cr.op = "dri_bo_import"

CallsMade(fn) == {calls[k] : k \in CallsOf(fn)}

(* C13: when modifiers are requested and the backend has no modifier-aware entry point the
   request fails with a not-supported error and no image is created: dri_bo_create_common
   with modifier_count > 0 and no createImageWithModifiers returns -ENOENT and calls nothing,
   dri_bo_import with a modifier other than INVALID and no createImageFromDmaBufs2 returns
   -ENOSYS and calls nothing; and a request with modifiers never reaches createImage or
   createImageFromFds. *)
C13_ModifiersNeverIgnored ==
    /\ CreateCalled /\ cr.modifier_count > 0 =>
          /\ CallsOf("createImage") = {}
          /\ "createImageWithModifiers" \notin image_ext =>
                bo_ret = -ENOENT /\ calls = <<>> /\ bo.priv = NULL /\ ~img_live
    /\ ImportCalled /\ cr.modifier # DRM_FORMAT_MOD_INVALID =>
          /\ CallsOf("createImageFromFds") = {}
          /\ "createImageFromDmaBufs2" \notin image_ext =>
                bo_ret = -ENOSYS /\ calls = <<>> /\ bo.priv = NULL /\ ~img_live

C13_Witness ==
    /\ CreateCalled
    /\ cr.modifier_count > 0
    /\ "createImageWithModifiers" \notin image_ext
    /\ bo_ret = -ENOENT

(* the usage bits a call hands to the driver; createImageWithModifiers has no usage
   parameter *)
UsageGiven(call) == IF call.fn = "createImage" THEN call.arg.dri_use ELSE {}

(* C19: every image dri_bo_create_common asks the driver for, with or without modifiers, is
   asked for with the share bit, with scanout exactly when the use-flags hold scanout, with
   cursor exactly when they hold cursor, and with linear exactly when they hold linear or a
   CPU-access flag or the format has no DRI image format. *)
C19_UsageBitsFollowUseFlags ==
    CreateCalled =>
       \A k \in CallsOf("createImage") \cup CallsOf("createImageWithModifiers") :
          LET dri_use == UsageGiven(calls[k])
          IN  /\ DRI_IMAGE_USE_SHARE \subseteq dri_use
              /\ DRI_IMAGE_USE_SCANOUT \subseteq dri_use
                    <=> BO_USE_SCANOUT \subseteq cr.use_flags
              /\ DRI_IMAGE_USE_CURSOR \subseteq dri_use
                    <=> BO_USE_CURSOR \subseteq cr.use_flags
              /\ DRI_IMAGE_USE_LINEAR \subseteq dri_use
                    <=> \/ BO_USE_LINEAR \subseteq cr.use_flags
                        \/ cr.use_flags \cap BO_USE_SW_MASK # {}
                        \/ drm_format_to_dri_format(cr.format) = "0"

FallbackCreated ==
    CreateCalled /\ bo_ret = 0 /\ drm_format_to_dri_format(cr.format) = "0"

NativeCreated ==
    CreateCalled /\ bo_ret = 0 /\ drm_format_to_dri_format(cr.format) # "0"

(* C20: after a successful dri_bo_create_common for a format with no DRI image format the
   only queries made are the handle and the stride of plane 0, import_into_minigbm has not
   run, strides, sizes, offsets and total size are the byte-layout rules applied to the
   stride the driver reported, and every plane carries the handle of plane 0; for a format
   with a DRI image format the buffer object is what import_into_minigbm produced. *)
C20_FallbackGeometryFromReportedStride ==
    /\ FallbackCreated =>
          /\ Call("fromPlanar", 0) \in CallsMade("fromPlanar")
          /\ CallsMade("queryImage")
                = {Call("queryImage", "HANDLE"), Call("queryImage", "STRIDE")}
          /\ Cardinality(CallsOf("queryImage")) = 2
          /\ ~cr.imported
          /\ \A i \in 0 .. (cr.num_planes - 1) :
                /\ bo.strides[i] = PlaneStride(cr.format, cr.reported_stride, i)
                /\ bo.sizes[i] = PlaneSize(cr.format, cr.reported_stride, cr.height, i)
                /\ bo.offsets[i] = PlaneOffset(cr.format, cr.reported_stride, cr.height, i)
                /\ bo.handles[i] = bo.handles[0]
          /\ bo.total_size
                = PlaneOffset(cr.format, cr.reported_stride, cr.height, cr.num_planes)
    /\ NativeCreated =>
          /\ cr.imported
          /\ CallsOf("queryImage") = {}
          /\ \E q \in QueryOutcomes(image) :
                bo = import_into_minigbm([NewBo EXCEPT !.priv = "image"], image,
                                         gem_size, q).bo

C20_Witness ==
    /\ FallbackCreated
    /\ cr.num_planes = 3
    /\ cr.reported_stride # drv_stride_from_format(cr.format, cr.width, 0)
    /\ bo.handles[2] = bo.handles[0]
    /\ bo.handles[0] # 0

----------------------------------------------------------------------------
(* Properties of the releases of import_into_minigbm *)

ImportReturned == bo_pc = "import_into_minigbm"

(* every call of obtain for a plane is followed by exactly one call of release for it, and
   release is never called for a plane without an obtain before it *)
ReleasedOnce(obtain, release) ==
    \A plane \in PlaneIdx :
       LET got == {k \in CallsOf(obtain) : calls[k].arg = plane}
           put == {k \in CallsOf(release) : calls[k].arg = plane}
       IN  /\ Cardinality(got) = Cardinality(put)
           /\ Cardinality(got) <= 1
           /\ \A g \in got, r \in put : g < r

(* C23: when import_into_minigbm has returned, with success or with the failure of any
   query of any plane, every plane image fromPlanar gave has been destroyed exactly once and
   every descriptor the fd query gave has been closed exactly once. *)
C23_PlaneImagesAndFdsReleasedOnce ==
    ImportReturned =>
       /\ ReleasedOnce("fromPlanar", "destroyImage")
       /\ ReleasedOnce("queryImage FD", "close")

C23_Witness ==
    /\ ImportReturned
    /\ bo_ret # 0
    /\ image.num_planes = 2
    /\ cr.num_planes = 1
    /\ Cardinality(CallsOf("fromPlanar")) = 2
    /\ Cardinality(CallsOf("destroyImage")) = 2
    /\ Cardinality(CallsOf("close")) = 2

----------------------------------------------------------------------------
(* Properties of the failure paths of dri_bo_create_common *)

(* dri_bo_create_common returned an error after the driver had created the image *)
CreateFailedWithImage == CreateCalled /\ bo_ret # 0 /\ bo.priv # NULL

(* C24: when dri_bo_create_common returns an error after the image was created, the buffer
   image has been destroyed and so has the plane image fromPlanar gave, if it gave one. *)
C24_FailedCreateDestroysEveryImage ==
    CreateFailedWithImage =>
       /\ Call("destroyImage", "image") \in CallsMade("destroyImage")
       /\ cr.plane_image => Call("destroyImage", "plane_image") \in CallsMade("destroyImage")

====
